---- MODULE Spec2Model ----
(***************************************************************************)
(* Client health / failover coordinator of the smartnode daemon:           *)
(* shared/services/requirements.go.                                        *)
(*                                                                         *)
(* Tasks (goroutines) call waitEthClientSynced / waitBeaconClientSynced    *)
(* concurrently.  The backing clients are the environment: what a client   *)
(* answers to a probe is an input of the step that probes it, so a client  *)
(* may change between any two probes.                                      *)
(*                                                                         *)
(* Time is kept by clocks that advance together (Tick).  The clock         *)
(* sinceStart is time.Since(startTime): it is reset where the code reads   *)
(* time.Now().  A clock saturates one second above the only duration the   *)
(* code compares it with.                                                  *)
(***************************************************************************)
EXTENDS Integers, Sequences, FiniteSets, TLC

\* ------------------------------------------------------------------ bounds
\* Seconds that pass in one Tick.
TickStep == 10

\* The largest value of the uint64 slot counter, scaled down from 2^64 - 1:
\* the counter wraps from 0 to UintMax and from UintMax to 0.
UintMax == 7
\* The most slots that have a block.
MaxBlocks == 2
\* The whole seconds the largest time.Duration holds (an int64 of nanoseconds),
\* scaled down from 9223372036.
MaxDurationSeconds == 4
\* The largest timestamp a block header or the genesis carries.
TimeMax == 6
\* The largest finalized epoch the beacon head reports.
MaxEpoch == 3
\* The builds one goroutine starts.
MaxBuilds == 1
\* The entities whose details one snapshot holds.
MaxEntities == 2

\* --------------------------------------------------------------- constants
EthClientSyncTimeout == 16
BeaconClientSyncTimeout == 16
ethClientSyncPollInterval == 5
beaconClientSyncPollInterval == 5
ethClientRecentBlockThreshold == 300
ethClientStatusRefreshInterval == 60

\* The goroutines that call the waits.
Tasks == {"t1", "t2"}
\* The two waits.
Roles == {"eth", "beacon"}
\* The timeouts the callers pass: 0 (WaitEthClientSynced, WaitBeaconClientSynced)
\* and the timeouts of RequireEthClientSynced, RequireBeaconClientSynced.
Timeouts == {0, EthClientSyncTimeout, BeaconClientSyncTimeout}

\* error values: nil is the empty tuple
NoErr == <<>>
ErrClientLookup == <<"GetEthClient / GetBeaconClient failed">>
ErrSyncProgress == <<"SyncProgress failed">>
ErrLatestBlock == <<"GetEthClientLatestBlockTimestamp failed">>
ErrBeaconSyncStatus == <<"GetSyncStatus failed">>

\* The error strings a client status can carry.
ErrorStrings == {"", "e1", "e2"}
\* Every status one execution client can report to CheckStatus.
ClientStatuses == [IsWorking : BOOLEAN, IsSynced : BOOLEAN, Error : ErrorStrings]
\* The zero value of a client status.
NoStatus == [IsWorking |-> FALSE, IsSynced |-> FALSE, Error |-> ""]

\* The answers of clientToCheck.SyncProgress(): (progress, err).  A progress
\* object carries its CurrentBlock and HighestBlock: behind, or caught up.
SyncProgressAnswers ==
    {[progress |-> "object", CurrentBlock |-> 1, HighestBlock |-> 2, err |-> NoErr],
     [progress |-> "object", CurrentBlock |-> 2, HighestBlock |-> 2, err |-> NoErr],
     [progress |-> "nil", CurrentBlock |-> 0, HighestBlock |-> 0, err |-> NoErr],
     [progress |-> "nil", CurrentBlock |-> 0, HighestBlock |-> 0, err |-> ErrSyncProgress]}

\* The answers of GetEthClientLatestBlockTimestamp, as the age of the block in
\* seconds (time.Since(blockTime)): fresh, just inside, at and beyond the threshold.
LatestBlockAnswers ==
    {[age |-> a, err |-> NoErr] :
        a \in {0, ethClientRecentBlockThreshold - 1, ethClientRecentBlockThreshold,
               ethClientRecentBlockThreshold + 1}}
    \cup {[age |-> 0, err |-> ErrLatestBlock]}

\* The answers of bc.GetSyncStatus(): (status, err).
BeaconSyncAnswers ==
    {[Syncing |-> TRUE, err |-> NoErr],
     [Syncing |-> FALSE, err |-> NoErr],
     [Syncing |-> FALSE, err |-> ErrBeaconSyncStatus]}

VARIABLES
    fallbackEnabled,      \* configuration: ecMgr.fallbackEc != nil
    ethClientSyncLock,    \* sync.Mutex: TRUE when locked
    beaconClientSyncLock, \* sync.Mutex: TRUE when locked
    primaryReady,         \* ecMgr.primaryReady
    fallbackReady,        \* ecMgr.fallbackReady
    mgrStatus,            \* the status of the last direct CheckStatus (StatusCall), whether it
                          \* asked the fallback, and what the fallback would have answered
    lastCheck,            \* the result of the last direct checkExecutionClientStatus (StatusCall)
    task,                 \* per goroutine: position, arguments, locals, result
    primaryCondition,     \* the primary execution client where it is kept: "syncing", "synced"
    beaconStatus,         \* what the beacon clients answered at the last managed GetSyncStatus
    BeaconConfig,         \* m.BeaconConfig: GenesisTime, SecondsPerSlot, SlotsPerEpoch
    beaconBlocks,         \* the consensus client: the slots that have a block
    call,                 \* the call of the state manager in progress, and its result
    latestState,          \* m.latestState: Nil or the snapshot published last
    updateLock,           \* m.updateLock: Free or the goroutine that holds it
    build,                \* per building goroutine: its updateState call
    reader,               \* per reading goroutine: its GetLatestState call
    require               \* the RequireNodeRegistered call in progress, and its result

\* What the waits never write.
outsideWaits == <<primaryCondition, beaconStatus, BeaconConfig, beaconBlocks, call,
                  latestState, updateLock, build, reader, require>>

\* What the state manager never writes.
waitVars == <<fallbackEnabled, ethClientSyncLock, beaconClientSyncLock,
              primaryReady, fallbackReady, mgrStatus, lastCheck, task,
              primaryCondition, beaconStatus,
              latestState, updateLock, build, reader, require>>

\* What updateState and GetLatestState never write.
outsideBuilds == <<fallbackEnabled, ethClientSyncLock, beaconClientSyncLock,
                   primaryReady, fallbackReady, mgrStatus, lastCheck, task,
                   primaryCondition, beaconStatus, BeaconConfig, beaconBlocks, call,
                   require>>

\* What the statements of RequireNodeRegistered outside the wait never write.
outsideRequire == <<fallbackEnabled, ethClientSyncLock, beaconClientSyncLock,
                    primaryReady, fallbackReady, mgrStatus, lastCheck,
                    primaryCondition, beaconStatus, BeaconConfig, beaconBlocks, call,
                    latestState, updateLock, build, reader>>

vars == <<fallbackEnabled, ethClientSyncLock, beaconClientSyncLock,
          primaryReady, fallbackReady, mgrStatus, lastCheck, task,
          primaryCondition, beaconStatus, BeaconConfig, beaconBlocks, call,
          latestState, updateLock, build, reader, require>>

Min(a, b) == IF a < b THEN a ELSE b

\* ------------------------------------------------- the execution client manager

\* ecMgr.CheckStatus(): asks the primary, and the fallback only when the
\* primary is not synced and a fallback is configured.  p and f are what the
\* two clients answer.  Gives the new manager fields and the returned status.
CheckStatus(p, f, enabled, oldFallbackReady) ==
    LET pReady == p.IsWorking /\ p.IsSynced
        askFb  == enabled /\ ~pReady
        fs     == IF askFb THEN f ELSE NoStatus
    IN  [primaryReady   |-> pReady,
         fallbackReady  |-> IF askFb THEN fs.IsWorking /\ fs.IsSynced ELSE oldFallbackReady,
         status         |-> [PrimaryEcStatus  |-> p,
                             FallbackEnabled  |-> enabled,
                             FallbackEcStatus |-> fs],
         fallbackProbed |-> askFb]

\* Result records of checkExecutionClientStatus.
Ready == [synced |-> TRUE, client |-> "nil", err |-> NoErr]
WaitOn(client) == [synced |-> FALSE, client |-> client, err |-> NoErr]
Unavailable(err) == [synced |-> FALSE, client |-> "nil", err |-> err]

\* Mutant: a ready primary is also handed back as the client to check.
checkExecutionClientStatus_ReturnsPrimary(mgr) ==
    IF mgr.primaryReady THEN [synced |-> TRUE, client |-> "primary", err |-> NoErr]
    ELSE IF mgr.fallbackReady THEN Ready
    ELSE LET s == mgr.status IN
         IF s.PrimaryEcStatus.IsWorking /\ s.PrimaryEcStatus.Error = "" THEN WaitOn("primary")
         ELSE IF s.FallbackEnabled /\ s.FallbackEcStatus.IsWorking /\ s.FallbackEcStatus.Error = ""
           THEN WaitOn("fallback")
         ELSE Unavailable(<<"no execution clients are ready">>)

\* Mutant: a working primary is waited for before the fallback is looked at.
checkExecutionClientStatus_WaitsFirst(mgr) ==
    LET s == mgr.status IN
    IF mgr.primaryReady THEN Ready
    ELSE IF s.PrimaryEcStatus.IsWorking /\ s.PrimaryEcStatus.Error = "" THEN WaitOn("primary")
    ELSE IF mgr.fallbackReady THEN Ready
    ELSE IF s.FallbackEnabled /\ s.FallbackEcStatus.IsWorking /\ s.FallbackEcStatus.Error = ""
      THEN WaitOn("fallback")
    ELSE Unavailable(<<"no execution clients are ready">>)

\* Mutant: a working fallback is waited on before a working primary.
checkExecutionClientStatus_FallbackFirst(mgr) ==
    LET s == mgr.status IN
    IF mgr.primaryReady \/ mgr.fallbackReady THEN Ready
    ELSE IF s.FallbackEnabled /\ s.FallbackEcStatus.IsWorking /\ s.FallbackEcStatus.Error = ""
      THEN WaitOn("fallback")
    ELSE IF s.PrimaryEcStatus.IsWorking /\ s.PrimaryEcStatus.Error = "" THEN WaitOn("primary")
    ELSE Unavailable(<<"no execution clients are ready">>)

\* Mutant: the error message names the primary's error twice.
checkExecutionClientStatus_PrimaryErrorTwice(mgr) ==
    LET s == mgr.status IN
    IF mgr.primaryReady \/ mgr.fallbackReady THEN Ready
    ELSE IF s.PrimaryEcStatus.IsWorking /\ s.PrimaryEcStatus.Error = "" THEN WaitOn("primary")
    ELSE IF s.FallbackEnabled /\ s.FallbackEcStatus.IsWorking /\ s.FallbackEcStatus.Error = ""
      THEN WaitOn("fallback")
    ELSE IF s.FallbackEnabled
      THEN Unavailable(<<"no execution clients are ready",
                         s.PrimaryEcStatus.Error, s.PrimaryEcStatus.Error>>)
      ELSE Unavailable(<<"no fallback execution client is configured", s.PrimaryEcStatus.Error>>)

\* Mutant: with no client to wait on, the error is left out of the result.
checkExecutionClientStatus_NoErrorWhenUnavailable(mgr) ==
    LET s == mgr.status IN
    IF mgr.primaryReady \/ mgr.fallbackReady THEN Ready
    ELSE IF s.PrimaryEcStatus.IsWorking /\ s.PrimaryEcStatus.Error = "" THEN WaitOn("primary")
    ELSE IF s.FallbackEnabled /\ s.FallbackEcStatus.IsWorking /\ s.FallbackEcStatus.Error = ""
      THEN WaitOn("fallback")
    ELSE Unavailable(NoErr)

\* checkExecutionClientStatus, after ecMgr.CheckStatus() gave mgr: the
\* returned (synced, client to check, error).
checkExecutionClientStatus(mgr) ==
    LET s == mgr.status IN
    IF mgr.primaryReady
      THEN Ready
    ELSE IF mgr.fallbackReady
      THEN Ready
    ELSE IF s.PrimaryEcStatus.IsWorking /\ s.PrimaryEcStatus.Error = ""
      THEN WaitOn("primary")
    ELSE IF s.FallbackEnabled /\ s.FallbackEcStatus.IsWorking /\ s.FallbackEcStatus.Error = ""
      THEN WaitOn("fallback")
    ELSE IF s.FallbackEnabled
      THEN Unavailable(<<"no execution clients are ready",
                         s.PrimaryEcStatus.Error, s.FallbackEcStatus.Error>>)
      ELSE Unavailable(<<"no fallback execution client is configured",
                         s.PrimaryEcStatus.Error>>)

\* Mutant: a block exactly as old as the threshold still counts as recent.
IsSyncWithinThreshold_AtThreshold(a) ==
    IF a.err # NoErr
      THEN [isUpToDate |-> FALSE, err |-> a.err]
      ELSE [isUpToDate |-> a.age <= ethClientRecentBlockThreshold, err |-> NoErr]

\* IsSyncWithinThreshold(ec), given the answer to the timestamp request:
\* (isUpToDate, err).
IsSyncWithinThreshold(a) ==
    IF a.err # NoErr
      THEN [isUpToDate |-> FALSE, err |-> a.err]
      ELSE [isUpToDate |-> a.age < ethClientRecentBlockThreshold, err |-> NoErr]

\* ------------------------------------------------------------------- tasks

\* No checkExecutionClientStatus result yet.
NoCheck == [synced |-> FALSE, client |-> "none", err |-> NoErr]

\* A goroutine that is in no wait and has no result.
IdleTask ==
    [pc            |-> "idle",
     fn            |-> "eth",
     timeout       |-> 0,
     sinceStart    |-> 0,      \* time.Since(startTime)
     sinceRefresh  |-> 0,      \* time.Since(ecRefreshTime)
     sleepLeft     |-> 0,      \* what is left of time.Sleep
     clientToCheck |-> "nil",
     synced        |-> FALSE,  \* the returned bool
     err           |-> NoErr,  \* the returned error
     \* history of the call, read by no action:
     path          |-> "none", \* the return statement taken
     lockWait      |-> 0,      \* time spent so far in Lock()
     answers       |-> "none", \* "none", "syncing" (every answer so far said syncing), "other"
     probeErr      |-> NoErr,  \* the error a probe of this call answered with
     blockAge      |-> -1,     \* the age of the latest block read in this iteration, -1: none
     refreshed     |-> FALSE,  \* whether the loop has refreshed the status in this call
     progress      |-> "none", \* what SyncProgress returned in this iteration: "none" (not
                               \* asked, or an error), "nil", "behind", "caughtUp"
     sinceProbe    |-> "none", \* "none": no sync probe in this call yet; "probed": none of
                               \* the sleeps since the last one is over; "slept": one is;
                               \* "sleptTwice": more than one
     checked       |-> NoCheck] \* the last checkExecutionClientStatus result of this call

\* The positions between Lock() and the deferred Unlock().
InWait == {"getClient", "check", "loop", "refresh", "probe", "recency", "sleep"}
\* The positions after startTime was taken.
InLoop == {"loop", "refresh", "probe", "recency", "sleep"}

\* No RequireNodeRegistered call in progress and none made yet.
NoRequire ==
    [pc        |-> "idle",
     at        |-> 1,      \* the position in RequireNodeRegisteredSteps
     err       |-> NoErr,  \* the returned error
     \* history of the call, read by no action:
     evaluated |-> <<>>,   \* the checks evaluated, in order
     answers   |-> <<>>]   \* what each of them answered: (ok, err)

\* lockWait saturates above the longest time a timed wait polls.
LockWaitCap == EthClientSyncTimeout + TickStep + 1

\* ------------------------------------------------- the state manager: data

\* The values of a uint64.
Uint64 == 0..UintMax
\* What the environment can hold and answer.
BlockSets == {b \in SUBSET Uint64 : Cardinality(b) <= MaxBlocks}
BeaconConfigs == [GenesisTime : {0, 2}, SecondsPerSlot : {1, 2}, SlotsPerEpoch : {1, 3}]
HeaderTimes == 0..TimeMax
FinalizedEpochs == 0..MaxEpoch

ErrBeaconBlock == <<"error getting Beacon block">>
ErrBeaconHead == <<"error getting Beacon chain head">>
ErrFinalizedSlot == <<"error getting latest finalized slot">>
ErrHeader == <<"error getting latest EL block">>
ErrHeadSlot == <<"error getting latest Beacon slot", "error getting latest EL block">>
ErrNoBlockFound == <<"NoBlockFound">>
ErrCreate == <<"CreateNetworkState failed">>

\* No earlier walk.
NoWalk == [start |-> -1, block |-> -1]

\* No call of the state manager in progress and none made yet.
NoCall ==
    [op         |-> "none",
     pc         |-> "idle",
     targetSlot |-> 0,      \* the local targetSlot
     slot       |-> -1,     \* the returned slot number, -1: none
     block      |-> -1,     \* the slot of the returned block, -1: none
     err        |-> NoErr,  \* the returned error
     built      |-> -1,     \* the slot handed to updateState, -1: none
     \* history of the call, read by no action:
     time       |-> -1,     \* the timestamp of the header that was fetched
     epoch      |-> -1,     \* the finalized epoch that was fetched
     start      |-> -1,     \* the slot the backward walk started at
     probes     |-> <<>>,   \* the slots asked for before the counter wrapped
     wrapped    |-> FALSE,  \* whether the counter was decremented at 0
     failed     |-> FALSE,  \* whether a GetBeaconBlock of the walk answered with an error
     last       |-> NoWalk] \* the previous GetLatestProposedBeaconBlock that returned a block

\* ---------------------------------------------- the latest snapshot: data

\* The goroutines that build snapshots and those that read the latest one.
Builders == {"b1", "b2"}
Readers == {"r1"}
\* The slots a snapshot is asked for, and the slots that can have a block then.
BuildSlots == {1, 2}
BuildBlockSets == {{1}, {2}, {1, 2}}

\* m.updateLock unlocked.
Free == "free"

\* A nil *NetworkState.
NilState == [id |-> <<"nil", 0>>, slot |-> -1, block |-> -1, records |-> <<>>,
             complete |-> FALSE]

\* The NetworkState build n of goroutine b allocates for a slot: the slot
\* context of its block and of each detail record are filled in by the fetches.
NewState(b, n, slot) ==
    [id |-> <<b, n>>, slot |-> slot, block |-> -1, records |-> <<>>, complete |-> FALSE]

\* Mutant: the manager starts with an allocated, empty snapshot.
NewLatestState_Preallocated == [NilState EXCEPT !.id = <<"new", 0>>]

\* m.latestState of a new manager: the struct literal leaves it nil.
NewLatestState == NilState

\* Mutant: the lock is taken before the snapshot is created.
updateStateSteps_LocksBeforeCreate == <<"Lock", "CreateNetworkState", "store", "Unlock">>

\* The statements of updateState in the order they run; the deferred Unlock
\* runs at the return.
updateStateSteps == <<"CreateNetworkState", "Lock", "store", "Unlock">>
Returned == Len(updateStateSteps) + 1

\* No updateState call yet.
IdleBuild ==
    [at         |-> 0,         \* 0: no call; i: step i is next; Returned
     n          |-> 0,         \* the calls started
     slotNumber |-> -1,        \* the parameter slotNumber
     creating   |-> NilState,  \* the snapshot CreateNetworkState is filling
     state      |-> NilState,  \* the local state
     err        |-> NoErr,     \* the local err
     ret        |-> NilState,  \* the returned state
     \* history of the call, read by no action:
     before     |-> NilState,  \* m.latestState when the call started
     disturbed  |-> FALSE,     \* another call stored since this one started or stored
     during     |-> <<"nil", 0>>, \* the call of another goroutine in progress at the start
     succeeded  |-> FALSE]     \* some call of this goroutine returned a snapshot

\* No GetLatestState call yet.
IdleReader ==
    [pc       |-> "idle",
     result   |-> NilState,
     \* history of the call, read by no action:
     anyBuilt |-> FALSE,   \* a build had returned a snapshot when m.latestState was read
     inFlight |-> 0]       \* the builds creating a snapshot when m.latestState was read

\* The latest snapshot of a new manager.
InitLatest ==
    /\ latestState = NewLatestState
    /\ updateLock = Free
    /\ build = [b \in Builders |-> IdleBuild]
    /\ reader = [r \in Readers |-> IdleReader]

\* The waits before any call, with or without a fallback execution client.
InitWaits ==
    /\ fallbackEnabled \in BOOLEAN
    /\ ethClientSyncLock = FALSE
    /\ beaconClientSyncLock = FALSE
    /\ primaryReady = FALSE
    /\ fallbackReady = FALSE
    /\ mgrStatus = [PrimaryEcStatus |-> NoStatus, FallbackEnabled |-> fallbackEnabled,
                    FallbackEcStatus |-> NoStatus, fallbackProbed |-> FALSE,
                    fallbackAnswer |-> NoStatus]
    /\ lastCheck = [synced |-> FALSE, client |-> "nil", err |-> NoErr, calls |-> 0]
    /\ task = [t \in Tasks |-> IdleTask]
    /\ primaryCondition = "syncing"
    /\ beaconStatus = [primary |-> NoStatus, fallback |-> NoStatus, asked |-> FALSE]
    /\ require = NoRequire

\* The state manager at rest, on a network that just started.
InitManager ==
    /\ BeaconConfig = [GenesisTime |-> 0, SecondsPerSlot |-> 1, SlotsPerEpoch |-> 1]
    /\ beaconBlocks = {}
    /\ call = NoCall
    /\ InitLatest

Init == InitWaits /\ InitManager

\* ---------------------------------------------------------------- the waits

\* Mutant: both waits use the one mutex ethClientSyncLock to decide whether to block.
Locked_OneLockForBoth(f) == ethClientSyncLock

\* Whether the wait lock of role f is held.
Locked(f) == IF f = "eth" THEN ethClientSyncLock ELSE beaconClientSyncLock

\* Mutant: the two waits share one mutex: locking or unlocking for one role
\* does it for the other.
SetLock_OneMutex(f, v) ==
    /\ ethClientSyncLock' = v
    /\ beaconClientSyncLock' = v

\* Lock() / Unlock() of the wait lock of role f: the new values of the two locks.
SetLock(f, v) ==
    /\ ethClientSyncLock' = IF f = "eth" THEN v ELSE ethClientSyncLock
    /\ beaconClientSyncLock' = IF f = "beacon" THEN v ELSE beaconClientSyncLock

\* A statement's outcome: the wait returns (synced, err) ...
Returns(synced, err, path) ==
    [ret |-> TRUE, synced |-> synced, err |-> err, path |-> path, pc |-> "done"]
\* ... or goes on at pc.
Continues(pc) ==
    [ret |-> FALSE, synced |-> FALSE, err |-> NoErr, path |-> "none", pc |-> pc]

\* The history of the answers of a call after one more answer.
Note(old, saysSyncing) ==
    IF saysSyncing /\ old \in {"none", "syncing"} THEN "syncing" ELSE "other"

\* The wait of task t goes on at o.pc with the locals of g; the lock stays held.
Goto(t, g, o) ==
    /\ task' = [task EXCEPT ![t] =
                  [g EXCEPT !.pc = o.pc,
                            !.sleepLeft = IF o.pc # "sleep" THEN 0
                                          ELSE IF g.fn = "eth" THEN ethClientSyncPollInterval
                                          ELSE beaconClientSyncPollInterval]]
    /\ UNCHANGED <<ethClientSyncLock, beaconClientSyncLock>>

\* Mutant: the lock is released by hand on the success paths only; a return
\* with an error leaves it held.
Return_KeepsLockOnError(t, g, o) ==
    /\ task' = [task EXCEPT ![t] =
                  [IdleTask EXCEPT !.pc = "done", !.fn = g.fn, !.timeout = g.timeout,
                                   !.synced = o.synced, !.err = o.err, !.path = o.path,
                                   !.answers = g.answers, !.probeErr = g.probeErr,
                                   !.blockAge = g.blockAge, !.refreshed = g.refreshed,
                                   !.progress = g.progress, !.sinceProbe = g.sinceProbe,
                                   !.checked = g.checked]]
    /\ IF o.err = NoErr THEN SetLock(g.fn, FALSE)
                        ELSE UNCHANGED <<ethClientSyncLock, beaconClientSyncLock>>

\* A return statement of a wait: the result goes to the caller, the locals are
\* gone, and the deferred Unlock() runs.
Return(t, g, o) ==
    /\ task' = [task EXCEPT ![t] =
                  [IdleTask EXCEPT !.pc = "done", !.fn = g.fn, !.timeout = g.timeout,
                                   !.synced = o.synced, !.err = o.err, !.path = o.path,
                                   !.answers = g.answers, !.probeErr = g.probeErr,
                                   !.blockAge = g.blockAge, !.refreshed = g.refreshed,
                                   !.progress = g.progress, !.sinceProbe = g.sinceProbe,
                                   !.checked = g.checked]]
    /\ SetLock(g.fn, FALSE)

\* Task t carries out outcome o.
Finish(t, g, o) == IF o.ret THEN Return(t, g, o) ELSE Goto(t, g, o)

\* A goroutine calls waitEthClientSynced or waitBeaconClientSynced.
Call(t, f, timeout) ==
    /\ task[t].pc \in {"idle", "done"}
    /\ task' = [task EXCEPT ![t] = [IdleTask EXCEPT !.pc = "lock", !.fn = f, !.timeout = timeout]]
    /\ UNCHANGED <<outsideWaits, fallbackEnabled, primaryReady, fallbackReady, mgrStatus, lastCheck,
                   ethClientSyncLock, beaconClientSyncLock>>

\* Mutant: the wait goes on without waiting for the lock to be free.
Lock_DoesNotBlock(t) ==
    /\ task[t].pc = "lock"
    /\ SetLock(task[t].fn, TRUE)
    /\ task' = [task EXCEPT ![t].pc = "getClient"]
    /\ UNCHANGED <<outsideWaits, fallbackEnabled, primaryReady, fallbackReady, mgrStatus, lastCheck>>

\* ethClientSyncLock.Lock() / beaconClientSyncLock.Lock(): blocks while held.
Lock(t) ==
    /\ task[t].pc = "lock"
    /\ ~Locked(task[t].fn)
    /\ SetLock(task[t].fn, TRUE)
    /\ task' = [task EXCEPT ![t].pc = "getClient"]
    /\ UNCHANGED <<outsideWaits, fallbackEnabled, primaryReady, fallbackReady, mgrStatus, lastCheck>>

\* Mutant: the start time is taken on entry, before Lock(): the time spent
\* blocked counts against the timeout.
StartClock_OnEntry(r) == Min(r.lockWait, r.timeout + 1)

\* startTime := time.Now(), after the lock was acquired: what has elapsed of
\* the timeout of call r then.
StartClock(r) == 0

\* What a wait does with the answer of GetEthClient / GetBeaconClient.
AfterGetClient(ok, next) ==
    IF ok THEN Continues(next) ELSE Returns(FALSE, ErrClientLookup, "lookupErr")

\* GetEthClient(c): the manager, or an error.
EthGetClient(t, ok) ==
    /\ task[t].pc = "getClient" /\ task[t].fn = "eth"
    /\ Finish(t, task[t], AfterGetClient(ok, "check"))
    /\ UNCHANGED <<outsideWaits, fallbackEnabled, primaryReady, fallbackReady, mgrStatus, lastCheck>>

\* Mutant: a ready result is honoured before the loop only; at a refresh the
\* loop goes on to its probe.
EthAfterCheck_ReadyOnEntryOnly(r, entry) ==
    IF r.err # NoErr THEN Returns(FALSE, r.err, IF entry THEN "checkErr" ELSE "refreshErr")
    ELSE IF r.synced /\ entry THEN Returns(TRUE, NoErr, "readyOnEntry")
    ELSE Continues(IF entry THEN "loop" ELSE "probe")

\* What waitEthClientSynced does with the result r of checkExecutionClientStatus:
\* before the loop (entry) or at the refresh inside it.
EthAfterCheck(r, entry) ==
    IF r.err # NoErr THEN Returns(FALSE, r.err, IF entry THEN "checkErr" ELSE "refreshErr")
    ELSE IF r.synced THEN Returns(TRUE, NoErr, IF entry THEN "readyOnEntry" ELSE "refreshReady")
    ELSE Continues(IF entry THEN "loop" ELSE "probe")

\* A checkExecutionClientStatus call inside waitEthClientSynced, the clients
\* answering p and f: the manager fields are updated, the result goes to the
\* locals synced, clientToCheck, err, and the refresh clock restarts.
EthCheckStep(t, p, f, entry) ==
    LET mgr == CheckStatus(p, f, fallbackEnabled, fallbackReady)
        r   == checkExecutionClientStatus(mgr)
        o   == EthAfterCheck(r, entry)
        g   == [task[t] EXCEPT !.clientToCheck = r.client,
                               !.checked = r,
                               !.sinceStart = IF entry THEN StartClock(task[t]) ELSE @,
                               !.lockWait = 0,
                               !.sinceRefresh = 0,
                               !.refreshed = ~entry,
                               !.answers = Note(@, ~r.synced /\ r.err = NoErr)]
    IN  /\ primaryReady' = mgr.primaryReady
        /\ fallbackReady' = mgr.fallbackReady
        /\ Finish(t, g, o)
        /\ UNCHANGED <<outsideWaits, fallbackEnabled, mgrStatus, lastCheck>>

\* The first checkExecutionClientStatus of waitEthClientSynced; startTime and
\* ecRefreshTime are taken when it says to wait.
EthCheck(t, p, f) ==
    /\ task[t].pc = "check" /\ task[t].fn = "eth"
    /\ EthCheckStep(t, p, f, TRUE)

\* Mutant: the test forgets that a timeout of 0 means no timeout.
TimedOut_ZeroIsATimeout(timeout, elapsed) == elapsed > timeout

\* The timeout test at the top of the loop of either wait.
TimedOut(timeout, elapsed) == (timeout > 0) /\ (elapsed > timeout)

\* Mutant: the status is never refreshed inside the loop.
RefreshDue_Never(sinceRefresh) == FALSE

\* Whether the primary / fallback status is to be refreshed.
RefreshDue(sinceRefresh) == sinceRefresh > ethClientStatusRefreshInterval

\* Top of the loop of waitEthClientSynced: the timeout test, then whether the
\* status refresh is due.
EthLoopTop(t) ==
    /\ task[t].pc = "loop" /\ task[t].fn = "eth"
    /\ Finish(t, task[t],
              IF TimedOut(task[t].timeout, task[t].sinceStart) THEN Returns(FALSE, NoErr, "timeout")
              ELSE IF RefreshDue(task[t].sinceRefresh) THEN Continues("refresh")
              ELSE Continues("probe"))
    /\ UNCHANGED <<outsideWaits, fallbackEnabled, primaryReady, fallbackReady, mgrStatus, lastCheck>>

\* The refresh of the primary / fallback status inside the loop.
EthRefresh(t, p, f) ==
    /\ task[t].pc = "refresh"
    /\ EthCheckStep(t, p, f, FALSE)

\* Mutant: a failed SyncProgress call is taken for "not synced yet".
EthAfterSyncProgress_SwallowsError(a) ==
    IF a.err = NoErr /\ a.progress = "nil" THEN Continues("recency") ELSE Continues("sleep")

\* Mutant: a progress object whose current block is the highest block is taken
\* for "no longer syncing" and the recency check decides.
EthAfterSyncProgress_CaughtUpIsNil(a) ==
    IF a.err # NoErr THEN Returns(FALSE, a.err, "probeErr")
    ELSE IF a.progress # "nil" /\ a.CurrentBlock < a.HighestBlock THEN Continues("sleep")
    ELSE Continues("recency")

\* What waitEthClientSynced does with the answer of SyncProgress.
EthAfterSyncProgress(a) ==
    IF a.err # NoErr THEN Returns(FALSE, a.err, "probeErr")
    ELSE IF a.progress # "nil" THEN Continues("sleep")
    ELSE Continues("recency")

\* What an answer of SyncProgress says, for the history of the iteration.
ProgressSeen(a) ==
    IF a.err # NoErr THEN "none"
    ELSE IF a.progress = "nil" THEN "nil"
    ELSE IF a.CurrentBlock < a.HighestBlock THEN "behind"
    ELSE "caughtUp"

\* clientToCheck.SyncProgress(), the client answering a.  A nil clientToCheck
\* would be a nil dereference: the step needs a client.
EthProbe(t, a) ==
    /\ task[t].pc = "probe" /\ task[t].fn = "eth"
    /\ task[t].clientToCheck # "nil"
    /\ Finish(t, [task[t] EXCEPT !.answers = Note(@, a.err = NoErr /\ a.progress # "nil"),
                                 !.probeErr = a.err,
                                 !.progress = ProgressSeen(a),
                                 !.sinceProbe = "probed"],
              EthAfterSyncProgress(a))
    /\ UNCHANGED <<outsideWaits, fallbackEnabled, primaryReady, fallbackReady, mgrStatus, lastCheck>>

\* What waitEthClientSynced does with the result r of IsSyncWithinThreshold.
EthAfterRecency(r) ==
    IF r.err # NoErr THEN Returns(FALSE, r.err, "recencyErr")
    ELSE IF r.isUpToDate THEN Returns(TRUE, NoErr, "success")
    ELSE Continues("sleep")

\* IsSyncWithinThreshold(clientToCheck) when there was no progress object, the
\* client answering a to the timestamp request.
EthRecency(t, a) ==
    /\ task[t].pc = "recency"
    /\ Finish(t, [task[t] EXCEPT !.answers = "other", !.probeErr = a.err,
                                 !.blockAge = IF a.err = NoErr THEN a.age ELSE -1],
              EthAfterRecency(IsSyncWithinThreshold(a)))
    /\ UNCHANGED <<outsideWaits, fallbackEnabled, primaryReady, fallbackReady, mgrStatus, lastCheck>>

\* GetBeaconClient(c): the client, or an error; then startTime := time.Now().Unix().
BeaconGetClient(t, ok) ==
    /\ task[t].pc = "getClient" /\ task[t].fn = "beacon"
    /\ Finish(t, [task[t] EXCEPT !.sinceStart = StartClock(task[t]), !.lockWait = 0],
              AfterGetClient(ok, "loop"))
    /\ UNCHANGED <<outsideWaits, fallbackEnabled, primaryReady, fallbackReady, mgrStatus, lastCheck>>

\* Top of the loop of waitBeaconClientSynced: the timeout test.
BeaconLoopTop(t) ==
    /\ task[t].pc = "loop" /\ task[t].fn = "beacon"
    /\ Finish(t, task[t],
              IF TimedOut(task[t].timeout, task[t].sinceStart) THEN Returns(FALSE, NoErr, "timeout")
              ELSE Continues("probe"))
    /\ UNCHANGED <<outsideWaits, fallbackEnabled, primaryReady, fallbackReady, mgrStatus, lastCheck>>

\* Mutant: a failed GetSyncStatus is taken for "still syncing".
BeaconAfterSyncStatus_ErrorKeepsPolling(a) ==
    IF a.err # NoErr \/ a.Syncing THEN Continues("sleep")
    ELSE Returns(TRUE, NoErr, "success")

\* Mutant: the syncing flag is read the wrong way round.
BeaconAfterSyncStatus_Inverted(a) ==
    IF a.err # NoErr THEN Returns(FALSE, a.err, "probeErr")
    ELSE IF ~a.Syncing THEN Continues("sleep")
    ELSE Returns(TRUE, NoErr, "success")

\* Mutant: a syncing client is asked again at once, without the pause.
BeaconAfterSyncStatus_BusySpins(a) ==
    IF a.err # NoErr THEN Returns(FALSE, a.err, "probeErr")
    ELSE IF a.Syncing THEN Continues("loop")
    ELSE Returns(TRUE, NoErr, "success")

\* What waitBeaconClientSynced does with the answer of GetSyncStatus.
BeaconAfterSyncStatus(a) ==
    IF a.err # NoErr THEN Returns(FALSE, a.err, "probeErr")
    ELSE IF a.Syncing THEN Continues("sleep")
    ELSE Returns(TRUE, NoErr, "success")

\* bc.GetSyncStatus(), the client answering a.
BeaconProbe(t, a) ==
    /\ task[t].pc = "probe" /\ task[t].fn = "beacon"
    /\ Finish(t, [task[t] EXCEPT !.answers = Note(@, a.err = NoErr /\ a.Syncing),
                                 !.probeErr = a.err,
                                 !.sinceProbe = "probed"],
              BeaconAfterSyncStatus(a))
    /\ UNCHANGED <<outsideWaits, fallbackEnabled, primaryReady, fallbackReady, mgrStatus, lastCheck>>

\* time.Sleep returns.
Wake(t) ==
    /\ task[t].pc = "sleep"
    /\ task[t].sleepLeft = 0
    /\ Finish(t, [task[t] EXCEPT !.blockAge = -1, !.progress = "none",
                                 !.sinceProbe = IF @ = "probed" THEN "slept" ELSE "sleptTwice"],
              Continues("loop"))
    /\ UNCHANGED <<outsideWaits, fallbackEnabled, primaryReady, fallbackReady, mgrStatus, lastCheck>>

\* checkExecutionClientStatus called on its own, the clients answering p and
\* f: the status and the result are kept for inspection.
StatusCall(p, f) ==
    LET mgr == CheckStatus(p, f, fallbackEnabled, fallbackReady)
        r   == checkExecutionClientStatus(mgr)
    IN  /\ primaryReady' = mgr.primaryReady
        /\ fallbackReady' = mgr.fallbackReady
        /\ mgrStatus' = [PrimaryEcStatus  |-> mgr.status.PrimaryEcStatus,
                         FallbackEnabled  |-> mgr.status.FallbackEnabled,
                         FallbackEcStatus |-> mgr.status.FallbackEcStatus,
                         fallbackProbed   |-> mgr.fallbackProbed,
                         fallbackAnswer   |-> IF fallbackEnabled THEN f ELSE NoStatus]
        /\ lastCheck' = [synced |-> r.synced, client |-> r.client, err |-> r.err, calls |-> 1]
        /\ UNCHANGED <<outsideWaits, fallbackEnabled, ethClientSyncLock, beaconClientSyncLock, task>>

\* ----------------------------------------------------------- requirements

\* The errors of the requirements that are not met.
ErrPasswordNotSet == <<"The node password has not been set">>
ErrWalletNotInitialized == <<"The node wallet has not been initialized">>
ErrEthSyncing == <<"The Eth 1.0 node is currently syncing">>
ErrStorageNotFound == <<"The Rocket Pool storage contract was not found">>
ErrNotRegistered == <<"The node is not registered with Rocket Pool">>

\* The errors of the lookups behind the checks.
ErrGetPasswordManager == <<"GetPasswordManager failed">>
ErrGetInitialized == <<"GetWallet / GetInitialized failed">>
ErrCodeAt == <<"GetConfig / GetEthClient / CodeAt failed">>
ErrGetNodeExists == <<"GetWallet / GetRocketPool / GetNodeAccount / GetNodeExists failed">>

\* The checks RequireNodeRegistered evaluates, in the order of its calls:
\* RequireNodeWallet (RequireNodePassword, then the wallet), RequireRocketStorage
\* (RequireEthClientSynced, then the storage contract), then the registration.
RequireNodeRegisteredSteps == <<"password", "wallet", "ethSynced", "storage", "registered">>

\* The error a check returns when what it asks for does not hold.
Unmet(check) ==
    CASE check = "password"   -> ErrPasswordNotSet
      [] check = "wallet"     -> ErrWalletNotInitialized
      [] check = "ethSynced"  -> ErrEthSyncing
      [] check = "storage"    -> ErrStorageNotFound
      [] check = "registered" -> ErrNotRegistered

\* The error of the lookup behind a check.
LookupError(check) ==
    CASE check = "password"   -> ErrGetPasswordManager
      [] check = "wallet"     -> ErrGetInitialized
      [] check = "storage"    -> ErrCodeAt
      [] check = "registered" -> ErrGetNodeExists

\* What getNodePasswordSet, getNodeWalletInitialized, getRocketStorageLoaded
\* and getNodeRegistered can answer: (bool, error).
RequirementAnswers(check) == [ok : BOOLEAN, err : {NoErr, LookupError(check)}]

\* The body shared by the requirements: the error of the lookup, else the
\* error of the requirement when it does not hold, else nil.
Requirement(a, unmet) ==
    IF a.err # NoErr THEN a.err
    ELSE IF ~a.ok THEN unmet
    ELSE NoErr

\* Mutant: a wait that gave up at its timeout counts as synced.
RequireEthClientSynced_NotReadyPasses(r) == r.err

\* RequireEthClientSynced, given the result r of waitEthClientSynced.
RequireEthClientSynced(r) == Requirement([ok |-> r.synced, err |-> r.err], ErrEthSyncing)

\* The goroutine that calls RequireNodeRegistered.
Requirer == "t1"

\* The check the call is at.
CheckAt == RequireNodeRegisteredSteps[require.at]

\* A check answered a and gave the error e: RequireNodeRegistered returns e
\* when it is an error or the check was the last one, and goes on to the
\* next check otherwise.
AfterCheck(a, e) ==
    LET over == e # NoErr \/ require.at = Len(RequireNodeRegisteredSteps) IN
    require' = [require EXCEPT !.pc = IF over THEN "done" ELSE "check",
                               !.at = IF over THEN @ ELSE @ + 1,
                               !.err = e,
                               !.evaluated = Append(@, CheckAt),
                               !.answers = Append(@, a)]

\* A goroutine calls RequireNodeRegistered.
RequireNodeRegistered ==
    /\ require.pc \in {"idle", "done"}
    /\ require' = [NoRequire EXCEPT !.pc = "check"]
    /\ task' = [task EXCEPT ![Requirer] = IdleTask]
    /\ UNCHANGED outsideRequire

\* One of the checks other than the wait: the lookup answers a.
RequireCheck(a) ==
    /\ require.pc = "check" /\ CheckAt # "ethSynced"
    /\ a \in RequirementAnswers(CheckAt)
    /\ AfterCheck(a, Requirement(a, Unmet(CheckAt)))
    /\ UNCHANGED <<outsideRequire, task>>

\* RequireEthClientSynced calls waitEthClientSynced(c, false, EthClientSyncTimeout).
RequireWaitCall ==
    /\ require.pc = "check" /\ CheckAt = "ethSynced"
    /\ task[Requirer].pc = "idle"
    /\ Call(Requirer, "eth", EthClientSyncTimeout)

\* waitEthClientSynced has returned to RequireEthClientSynced.
RequireWaitReturn ==
    /\ require.pc = "check" /\ CheckAt = "ethSynced"
    /\ task[Requirer].pc = "done"
    /\ AfterCheck([ok |-> task[Requirer].synced, err |-> task[Requirer].err],
                  RequireEthClientSynced(task[Requirer]))
    /\ UNCHANGED <<outsideRequire, task>>

\* ------------------------------------------------------------------- time

\* The clocks of one task after d seconds.
Advance(r, d) ==
    [r EXCEPT !.lockWait     = IF r.pc = "lock" THEN Min(@ + d, LockWaitCap) ELSE @,
              !.sinceStart   = IF r.pc \in InLoop THEN Min(@ + d, r.timeout + 1) ELSE @,
              !.sinceRefresh = IF r.fn = "eth" /\ r.pc \in InLoop
                                 THEN Min(@ + d, ethClientStatusRefreshInterval + 1) ELSE @,
              !.sleepLeft    = IF @ > d THEN @ - d ELSE 0]

\* TickStep seconds pass, at any moment.
Tick ==
    /\ task' = [t \in Tasks |-> Advance(task[t], TickStep)]
    /\ UNCHANGED <<outsideWaits, fallbackEnabled, primaryReady, fallbackReady, mgrStatus, lastCheck,
                   ethClientSyncLock, beaconClientSyncLock>>

\* A task that can take a step now.
Runnable(t) ==
    \/ task[t].pc \in {"getClient", "check", "loop", "refresh", "probe", "recency"}
    \/ task[t].pc = "sleep" /\ task[t].sleepLeft = 0
    \/ task[t].pc = "lock" /\ ~Locked(task[t].fn)

\* TickStep seconds pass while every task is asleep, blocked or outside a wait:
\* the steps of the waits themselves take no time.
TickIdle ==
    /\ \A t \in Tasks : ~Runnable(t)
    /\ task' = [t \in Tasks |-> Advance(task[t], TickStep)]
    /\ UNCHANGED <<outsideWaits, fallbackEnabled, primaryReady, fallbackReady, mgrStatus, lastCheck,
                   ethClientSyncLock, beaconClientSyncLock>>

\* ------------------------------------------------------------ specifications

TaskStep ==
    \E t \in Tasks :
        \/ \E f \in Roles, timeout \in Timeouts : Call(t, f, timeout)
        \/ Lock(t)
        \/ \E ok \in BOOLEAN : EthGetClient(t, ok)
        \/ \E p \in ClientStatuses, f \in ClientStatuses : EthCheck(t, p, f)
        \/ EthLoopTop(t)
        \/ \E p \in ClientStatuses, f \in ClientStatuses : EthRefresh(t, p, f)
        \/ \E a \in SyncProgressAnswers : EthProbe(t, a)
        \/ \E a \in LatestBlockAnswers : EthRecency(t, a)
        \/ \E ok \in BOOLEAN : BeaconGetClient(t, ok)
        \/ BeaconLoopTop(t)
        \/ \E a \in BeaconSyncAnswers : BeaconProbe(t, a)
        \/ Wake(t)

\* The waits, with time passing at any moment.
Next == TaskStep \/ Tick

Spec == Init /\ [][Next]_vars

\* The waits, their steps taking no time.
NextTimed == TaskStep \/ TickIdle

SpecTimed == Init /\ [][NextTimed]_vars

\* checkExecutionClientStatus on its own, over every pair of client statuses.
NextStatus == \E p \in ClientStatuses, f \in ClientStatuses : StatusCall(p, f)

SpecStatus == Init /\ [][NextStatus]_vars

\* A step of the wait RequireEthClientSynced called.
RequireWaitStep ==
    \/ Lock(Requirer)
    \/ \E ok \in BOOLEAN : EthGetClient(Requirer, ok)
    \/ \E p \in ClientStatuses, f \in ClientStatuses : EthCheck(Requirer, p, f)
    \/ EthLoopTop(Requirer)
    \/ \E a \in SyncProgressAnswers : EthProbe(Requirer, a)
    \/ \E a \in LatestBlockAnswers : EthRecency(Requirer, a)
    \/ Wake(Requirer)

\* RequireNodeRegistered, called again and again by one goroutine.
NextRequire ==
    \/ RequireNodeRegistered
    \/ \E a \in [ok : BOOLEAN, err : {NoErr, ErrGetPasswordManager, ErrGetInitialized,
                                       ErrCodeAt, ErrGetNodeExists}] : RequireCheck(a)
    \/ RequireWaitCall
    \/ RequireWaitStep
    \/ RequireWaitReturn
    \/ Tick

SpecRequire == Init /\ [][NextRequire]_vars

\* ---------------------------------- a primary that syncs and stays synced

\* What a working primary with no hard error answers to CheckStatus.
PrimaryAnswer ==
    [IsWorking |-> TRUE, IsSynced |-> primaryCondition = "synced", Error |-> ""]

\* What it answers to SyncProgress: a progress object while it syncs, none after.
ProgressAnswer ==
    IF primaryCondition = "syncing"
      THEN [progress |-> "object", CurrentBlock |-> 1, HighestBlock |-> 2, err |-> NoErr]
      ELSE [progress |-> "nil", CurrentBlock |-> 0, HighestBlock |-> 0, err |-> NoErr]

\* The primary finishes syncing; it stays synced from then on.
PrimarySyncs ==
    /\ primaryCondition = "syncing"
    /\ primaryCondition' = "synced"
    /\ UNCHANGED <<fallbackEnabled, ethClientSyncLock, beaconClientSyncLock, primaryReady,
                   fallbackReady, mgrStatus, lastCheck, task, beaconStatus,
                   BeaconConfig, beaconBlocks, call,
                   latestState, updateLock, build, reader, require>>

\* A step of task t inside an execution wait on that primary: no lookup and
\* no probe fails, and the latest block is of any age.
LiveStep(t) ==
    \/ Lock(t)
    \/ EthGetClient(t, TRUE)
    \/ EthCheck(t, PrimaryAnswer, NoStatus)
    \/ EthLoopTop(t)
    \/ EthRefresh(t, PrimaryAnswer, NoStatus)
    \/ EthProbe(t, ProgressAnswer)
    \/ \E a \in {x \in LatestBlockAnswers : x.err = NoErr} : EthRecency(t, a)
    \/ Wake(t)

NextLive ==
    \/ \E t \in Tasks, timeout \in Timeouts : Call(t, "eth", timeout)
    \/ \E t \in Tasks : LiveStep(t)
    \/ Tick
    \/ PrimarySyncs

InitLive == Init /\ ~fallbackEnabled

\* Execution waits on a working primary with no fallback configured.  A
\* goroutine that can take a step takes one, and time passes.
SpecLive ==
    /\ InitLive
    /\ [][NextLive]_vars
    /\ WF_vars(Tick)
    /\ \A t \in Tasks : WF_vars(LiveStep(t))

\* ------------------------------------------- the managed beacon client

\* The error of a beacon client manager none of whose clients can be used.
ErrNoBeaconClient(p, f, enabled) ==
    IF enabled THEN <<"no Beacon clients are ready", p.Error, f.Error>>
               ELSE <<"no fallback Beacon client is configured", p.Error>>

\* GetSyncStatus of the client GetBeaconClient hands out, the two beacon
\* clients being in the conditions p and f: the status evaluation of the
\* execution role, applied to the consensus role.
ManagedGetSyncStatus(p, f, enabled) ==
    IF p.IsWorking /\ p.IsSynced THEN [Syncing |-> FALSE, err |-> NoErr]
    ELSE IF enabled /\ f.IsWorking /\ f.IsSynced THEN [Syncing |-> FALSE, err |-> NoErr]
    ELSE IF p.IsWorking /\ p.Error = "" THEN [Syncing |-> TRUE, err |-> NoErr]
    ELSE IF enabled /\ f.IsWorking /\ f.Error = "" THEN [Syncing |-> TRUE, err |-> NoErr]
    ELSE [Syncing |-> FALSE, err |-> ErrNoBeaconClient(p, f, enabled)]

\* bc.GetSyncStatus() of waitBeaconClientSynced on the managed client; the
\* conditions of the two clients are kept for inspection.
ManagedBeaconProbe(t, p, f) ==
    LET a == ManagedGetSyncStatus(p, f, fallbackEnabled) IN
    /\ task[t].pc = "probe" /\ task[t].fn = "beacon"
    /\ Finish(t, [task[t] EXCEPT !.answers = Note(@, a.err = NoErr /\ a.Syncing),
                                 !.probeErr = a.err,
                                 !.sinceProbe = "probed"],
              BeaconAfterSyncStatus(a))
    /\ beaconStatus' = [primary |-> p, fallback |-> IF fallbackEnabled THEN f ELSE NoStatus,
                        asked |-> TRUE]
    /\ UNCHANGED <<fallbackEnabled, primaryReady, fallbackReady, mgrStatus, lastCheck,
                   primaryCondition, BeaconConfig, beaconBlocks, call,
                   latestState, updateLock, build, reader, require>>

NextBeacon ==
    \/ \E t \in Tasks :
          \/ \E timeout \in Timeouts : Call(t, "beacon", timeout)
          \/ Lock(t)
          \/ \E ok \in BOOLEAN : BeaconGetClient(t, ok)
          \/ BeaconLoopTop(t)
          \/ \E p \in ClientStatuses,
                f \in IF fallbackEnabled THEN ClientStatuses ELSE {NoStatus} :
                    ManagedBeaconProbe(t, p, f)
          \/ Wake(t)
    \/ Tick

\* Consensus waits on the managed beacon client.
SpecBeacon == Init /\ [][NextBeacon]_vars

\* ------------------------------------------------------ the state manager

\* targetSlot-- on a uint64: 0 wraps to the largest value.
Decrement(x) == (x + UintMax) % (UintMax + 1)

\* latestBlockTime.Sub(genesisTime), in whole seconds: a time.Duration
\* saturates at its largest and smallest value.
SubSeconds(t, u) ==
    IF t - u > MaxDurationSeconds THEN MaxDurationSeconds
    ELSE IF t - u < -MaxDurationSeconds THEN -MaxDurationSeconds
    ELSE t - u

\* uint64(x) of a float64 holding the whole number x.  Of a negative x the
\* result depends on the platform: it wraps (amd64) or it is 0 (arm64).
ToUint64(x, wraps) ==
    IF x >= 0 THEN x ELSE IF wraps THEN UintMax + 1 + x ELSE 0

\* Mutant: a slot that has begun counts as the next one.
HeadSlotOf_RoundsUp(t, cfg, wraps) ==
    (ToUint64(SubSeconds(t, cfg.GenesisTime), wraps) + cfg.SecondsPerSlot - 1)
        \div cfg.SecondsPerSlot

\* Mutant: the seconds are counted from the Unix epoch, not from the genesis.
HeadSlotOf_SinceUnixEpoch(t, cfg, wraps) ==
    ToUint64(SubSeconds(t, 0), wraps) \div cfg.SecondsPerSlot

\* The Beacon slot of an execution block with timestamp t.
HeadSlotOf(t, cfg, wraps) ==
    ToUint64(SubSeconds(t, cfg.GenesisTime), wraps) \div cfg.SecondsPerSlot

\* Mutant: the first slot of the finalized epoch is taken.
FinalizedTargetSlot_FirstSlotOfEpoch(e, cfg) ==
    (e * cfg.SlotsPerEpoch) % (UintMax + 1)

\* head.FinalizedEpoch*SlotsPerEpoch + (SlotsPerEpoch - 1), in uint64.
FinalizedTargetSlot(e, cfg) ==
    (e * cfg.SlotsPerEpoch + (cfg.SlotsPerEpoch - 1)) % (UintMax + 1)

\* Mutant: a walk asked again for the same slot goes on below the block it
\* returned the last time.
FirstProbe_BelowLastResult(s) ==
    IF call.last.start = s /\ call.last.block > 0 THEN call.last.block - 1 ELSE s

\* The first slot GetLatestProposedBeaconBlock(targetSlot = s) asks for.
FirstProbe(s) == s

\* Mutant: a slot whose probe failed is taken for a missing one.
AfterGetBeaconBlock_ErrorIsMissing(targetSlot, exists, err) ==
    IF err # NoErr \/ ~exists
      THEN [ret |-> FALSE, block |-> -1, err |-> NoErr, targetSlot |-> Decrement(targetSlot)]
    ELSE [ret |-> TRUE, block |-> targetSlot, err |-> NoErr, targetSlot |-> targetSlot]

\* Mutant: after a missing slot the walk steps down by two.
AfterGetBeaconBlock_SkipsASlot(targetSlot, exists, err) ==
    IF err # NoErr THEN [ret |-> TRUE, block |-> -1, err |-> err, targetSlot |-> targetSlot]
    ELSE IF ~exists
      THEN [ret |-> FALSE, block |-> -1, err |-> NoErr,
            targetSlot |-> Decrement(Decrement(targetSlot))]
    ELSE [ret |-> TRUE, block |-> targetSlot, err |-> NoErr, targetSlot |-> targetSlot]

\* What the backward walk does with the answer (block, exists, err) of
\* GetBeaconBlock(targetSlot): return the error, return the block, or go on
\* with the slot before.
AfterGetBeaconBlock(targetSlot, exists, err) ==
    IF err # NoErr THEN [ret |-> TRUE, block |-> -1, err |-> err, targetSlot |-> targetSlot]
    ELSE IF ~exists
      THEN [ret |-> FALSE, block |-> -1, err |-> NoErr, targetSlot |-> Decrement(targetSlot)]
    ELSE [ret |-> TRUE, block |-> targetSlot, err |-> NoErr, targetSlot |-> targetSlot]

\* The block a snapshot for fromSlot is built on: the slot of the latest
\* proposed block at or below fromSlot, -1 when there is none.
ResolveLatestProposedBlock(fromSlot) ==
    IF \E r \in beaconBlocks : r <= fromSlot
      THEN CHOOSE r \in beaconBlocks :
             r <= fromSlot /\ \A q \in beaconBlocks : q <= fromSlot => q <= r
      ELSE -1

\* A call of the manager starts: the locals and the result are fresh.
Enter(op, pc) ==
    /\ call.pc \in {"idle", "done"}
    /\ call' = [NoCall EXCEPT !.op = op, !.pc = pc, !.last = call.last]
    /\ UNCHANGED <<waitVars, BeaconConfig, beaconBlocks>>

\* GetLatestProposedBeaconBlock(context, targetSlot = s) is called.
GetLatestProposedBeaconBlock(s) ==
    /\ call.pc \in {"idle", "done"}
    /\ call' = [NoCall EXCEPT !.op = "GetLatestProposedBeaconBlock", !.pc = "probe",
                              !.start = s, !.targetSlot = FirstProbe(s),
                              !.last = call.last]
    /\ UNCHANGED <<waitVars, BeaconConfig, beaconBlocks>>

\* One turn of the backward walk: m.bc.GetBeaconBlock(targetSlot) answers
\* with the block, with "missing", or (~ok) with an error.
GetBeaconBlock(ok) ==
    LET o == AfterGetBeaconBlock(call.targetSlot, call.targetSlot \in beaconBlocks,
                                 IF ok THEN NoErr ELSE ErrBeaconBlock)
        asked == IF call.wrapped THEN call.probes ELSE Append(call.probes, call.targetSlot)
        found == o.ret /\ o.err = NoErr
    IN  /\ call.pc = "probe"
        /\ call' =
             IF o.ret
               THEN [call EXCEPT
                       !.pc = "done", !.err = o.err, !.probes = asked, !.failed = ~ok,
                       !.block = IF call.op = "UpdateStateToFinalized" THEN -1 ELSE o.block,
                       !.built = IF found /\ call.op = "UpdateStateToFinalized"
                                   THEN o.targetSlot ELSE -1,
                       !.last = IF found /\ call.op = "GetLatestProposedBeaconBlock"
                                  THEN [start |-> call.start, block |-> o.block] ELSE @]
               ELSE [call EXCEPT !.targetSlot = o.targetSlot, !.probes = asked,
                                 !.failed = @ \/ ~ok,
                                 !.wrapped = @ \/ call.targetSlot = 0]
        /\ UNCHANGED <<waitVars, BeaconConfig, beaconBlocks>>

\* GetLatestFinalizedBeaconBlock(context) is called.
GetLatestFinalizedBeaconBlock == Enter("GetLatestFinalizedBeaconBlock", "head")

\* UpdateStateToFinalized() is called.
UpdateStateToFinalized == Enter("UpdateStateToFinalized", "head")

\* m.bc.GetBeaconHead() answers with the finalized epoch e, or (~ok) with an
\* error; the target slot of the walk is computed from e.
GetBeaconHead(e, ok) ==
    /\ call.pc = "head"
    /\ call' =
         IF ~ok THEN [call EXCEPT !.pc = "done",
                                  !.err = IF call.op = "UpdateStateToFinalized"
                                            THEN ErrFinalizedSlot ELSE ErrBeaconHead]
         ELSE [call EXCEPT !.pc = "probe", !.epoch = e,
                           !.targetSlot = FinalizedTargetSlot(e, BeaconConfig),
                           !.start = FinalizedTargetSlot(e, BeaconConfig)]
    /\ UNCHANGED <<waitVars, BeaconConfig, beaconBlocks>>

\* GetHeadSlot() is called.
GetHeadSlot == Enter("GetHeadSlot", "header")

\* UpdateStateToHead() is called.
UpdateStateToHead == Enter("UpdateStateToHead", "header")

\* GetHeadState(context) is called.
GetHeadState == Enter("GetHeadState", "header")

\* m.ec.HeaderByNumber(nil) answers with a header of timestamp t, or (~ok)
\* with an error; the head slot is computed and returned (GetHeadSlot) or
\* handed to updateState (UpdateStateToHead).
HeaderByNumber(t, ok, wraps) ==
    /\ call.pc = "header"
    /\ call' =
         IF ~ok THEN [call EXCEPT !.pc = "done",
                                  !.err = IF call.op = "GetHeadState"
                                            THEN ErrHeadSlot ELSE ErrHeader]
         ELSE LET targetSlot == HeadSlotOf(t, BeaconConfig, wraps) IN
              [call EXCEPT !.pc = IF call.op = "GetHeadState" THEN "create" ELSE "done",
                           !.time = t, !.targetSlot = targetSlot,
                           !.slot = IF call.op = "GetHeadSlot" THEN targetSlot ELSE -1,
                           !.built = IF call.op \in {"UpdateStateToHead", "GetHeadState"}
                                       THEN targetSlot ELSE -1]
    /\ UNCHANGED <<waitVars, BeaconConfig, beaconBlocks>>

\* getState: CreateNetworkState(..., slotNumber, ...) builds the snapshot on
\* the latest proposed block at or below the slot it was handed, or fails:
\* there is no such block, or (~ok) a fetch failed.
CreateNetworkState(ok) ==
    LET r == ResolveLatestProposedBlock(call.built) IN
    /\ call.pc = "create"
    /\ call' = IF ~ok THEN [call EXCEPT !.pc = "done", !.err = ErrCreate]
               ELSE IF r = -1 THEN [call EXCEPT !.pc = "done", !.err = ErrNoBlockFound]
               ELSE [call EXCEPT !.pc = "done", !.block = r]
    /\ UNCHANGED <<waitVars, BeaconConfig, beaconBlocks>>

NextManager ==
    \/ \E s \in Uint64 : GetLatestProposedBeaconBlock(s)
    \/ \E ok \in BOOLEAN : GetBeaconBlock(ok)
    \/ GetLatestFinalizedBeaconBlock
    \/ UpdateStateToFinalized
    \/ \E e \in FinalizedEpochs, ok \in BOOLEAN : GetBeaconHead(e, ok)
    \/ GetHeadSlot
    \/ UpdateStateToHead
    \/ GetHeadState
    \/ \E t \in HeaderTimes, ok \in BOOLEAN, wraps \in BOOLEAN : HeaderByNumber(t, ok, wraps)
    \/ \E ok \in BOOLEAN : CreateNetworkState(ok)

\* Every beacon configuration and every set of slots with a block.
InitNetwork ==
    /\ InitWaits /\ ~fallbackEnabled
    /\ BeaconConfig \in BeaconConfigs
    /\ beaconBlocks \in BlockSets
    /\ call = NoCall
    /\ InitLatest

\* The state manager, one call at a time.
SpecManager == InitNetwork /\ [][NextManager]_vars

\* ------------------------------------------------------ the latest snapshot

\* The statement of updateState goroutine b runs next.
NextStep(b) ==
    IF build[b].at \in 1..Len(updateStateSteps) THEN updateStateSteps[build[b].at]
    ELSE "none"

\* The calls of updateState in progress, other than b's.
OthersInProgress(b) == {c \in Builders \ {b} : build[c].at \in 1..Len(updateStateSteps)}

\* Mutant: the slot is read from where the call in progress that another
\* goroutine made left its own.
SlotForCreate_SharedWithOthers(b) ==
    IF OthersInProgress(b) = {} THEN build[b].slotNumber
    ELSE build[CHOOSE c \in OthersInProgress(b) : TRUE].slotNumber

\* The slot CreateNetworkState works with: the parameter slotNumber that
\* updateState (getState) passes by value.
SlotForCreate(b) == build[b].slotNumber

\* Mutant: the snapshot is published although CreateNetworkState failed.
AfterCreateNetworkState_PublishesOnError(state, err) ==
    [ret |-> FALSE, state |-> state, err |-> NoErr]

\* Mutant: what CreateNetworkState left is returned along with the error.
AfterCreateNetworkState_ReturnsStateOnError(state, err) ==
    IF err # NoErr THEN [ret |-> TRUE, state |-> state, err |-> err]
    ELSE [ret |-> FALSE, state |-> state, err |-> NoErr]

\* state, err := CreateNetworkState(...); if err != nil { return nil, err }
AfterCreateNetworkState(state, err) ==
    IF err # NoErr THEN [ret |-> TRUE, state |-> NilState, err |-> err]
    ELSE [ret |-> FALSE, state |-> state, err |-> NoErr]

\* Mutant: a snapshot is stored only while none is.
Publish_KeepsFirst(latest, state) == IF latest # NilState THEN latest ELSE state

\* Mutant: a snapshot of a lower slot does not replace the latest one.
Publish_KeepsHigherSlot(latest, state) == IF latest.slot > state.slot THEN latest ELSE state

\* m.latestState = state
Publish(latest, state) == state

\* UpdateStateToSlot(slotNumber = slot): goroutine b calls updateState.
UpdateStateToSlot(b, slot) ==
    /\ build[b].at \in {0, Returned}
    /\ build[b].n < MaxBuilds
    /\ build' = [build EXCEPT ![b] =
                   [IdleBuild EXCEPT
                      !.at = 1, !.n = build[b].n + 1, !.slotNumber = slot,
                      !.before = latestState,
                      !.during = IF OthersInProgress(b) = {} THEN <<"nil", 0>>
                                 ELSE LET c == CHOOSE c \in OthersInProgress(b) : TRUE
                                      IN  <<c, build[c].n>>,
                      !.succeeded = build[b].succeeded]]
    /\ UNCHANGED <<outsideBuilds, latestState, updateLock, reader>>

\* CreateNetworkState starts: it allocates the snapshot for its slot.
BeginCreate(b) ==
    /\ NextStep(b) = "CreateNetworkState"
    /\ build[b].creating = NilState
    /\ build' = [build EXCEPT ![b].creating =
                   NewState(b, build[b].n, SlotForCreate(b))]
    /\ UNCHANGED <<outsideBuilds, latestState, updateLock, reader>>

\* CreateNetworkState has returned (state, err) to updateState.
ReturnFromCreate(b, state, err) ==
    LET o == AfterCreateNetworkState(state, err) IN
    /\ build' = [build EXCEPT ![b] =
                   IF o.ret
                     THEN [@ EXCEPT !.at = Returned, !.creating = NilState,
                                    !.err = o.err, !.ret = o.state]
                     ELSE [@ EXCEPT !.at = @ + 1, !.creating = NilState,
                                    !.err = o.err, !.state = o.state]]
    /\ updateLock' = IF o.ret /\ updateLock = b THEN Free ELSE updateLock

\* CreateNetworkState resolves the block of its slot; it returns an error when
\* there is none, or when (~ok) the probe fails or is cancelled.
ResolveBlock(b, ok) ==
    LET r == ResolveLatestProposedBlock(SlotForCreate(b)) IN
    /\ NextStep(b) = "CreateNetworkState"
    /\ build[b].creating # NilState
    /\ build[b].creating.block = -1
    /\ IF ok /\ r # -1
         THEN /\ build' = [build EXCEPT ![b].creating.block = r]
              /\ UNCHANGED updateLock
         ELSE ReturnFromCreate(b, NilState, IF ok THEN ErrNoBlockFound ELSE ErrCreate)
    /\ UNCHANGED <<outsideBuilds, latestState, reader>>

\* One batch of CreateNetworkState's fetch: the details of one more entity,
\* fetched for the slot; or (~ok) the fetch fails or is cancelled and
\* CreateNetworkState returns the error, with nil or (partial) with what it had.
Fetch(b, ok, partial) ==
    /\ NextStep(b) = "CreateNetworkState"
    /\ build[b].creating # NilState
    /\ build[b].creating.block # -1
    /\ Len(build[b].creating.records) < MaxEntities
    /\ IF ok
         THEN /\ build' = [build EXCEPT ![b].creating.records =
                             Append(@, ResolveLatestProposedBlock(SlotForCreate(b)))]
              /\ UNCHANGED updateLock
         ELSE ReturnFromCreate(b, IF partial THEN build[b].creating ELSE NilState,
                               ErrCreate)
    /\ UNCHANGED <<outsideBuilds, latestState, reader>>

\* CreateNetworkState returns the assembled snapshot.
CreateReturn(b) ==
    /\ NextStep(b) = "CreateNetworkState"
    /\ build[b].creating # NilState
    /\ build[b].creating.block # -1
    /\ Len(build[b].creating.records) = MaxEntities
    /\ ReturnFromCreate(b, [build[b].creating EXCEPT !.complete = TRUE], NoErr)
    /\ UNCHANGED <<outsideBuilds, latestState, reader>>

\* m.updateLock.Lock() in updateState.
UpdateLock(b) ==
    /\ NextStep(b) = "Lock"
    /\ updateLock = Free
    /\ updateLock' = b
    /\ build' = [build EXCEPT ![b].at = @ + 1]
    /\ UNCHANGED <<outsideBuilds, latestState, reader>>

\* m.latestState = state
Store(b) ==
    /\ NextStep(b) = "store"
    /\ latestState' = Publish(latestState, build[b].state)
    /\ build' = [c \in Builders |->
                   IF c = b THEN [build[c] EXCEPT !.at = @ + 1, !.disturbed = FALSE]
                   ELSE [build[c] EXCEPT !.disturbed = TRUE]]
    /\ UNCHANGED <<outsideBuilds, updateLock, reader>>

\* return state, nil: the deferred m.updateLock.Unlock() runs.
UpdateUnlock(b) ==
    /\ NextStep(b) = "Unlock"
    /\ updateLock' = IF updateLock = b THEN Free ELSE updateLock
    /\ build' = [build EXCEPT ![b].at = Returned, ![b].ret = build[b].state,
                              ![b].succeeded = TRUE]
    /\ UNCHANGED <<outsideBuilds, latestState, reader>>

\* GetLatestState() is called by goroutine r.
GetLatestState(r) ==
    /\ reader[r].pc \in {"idle", "done"}
    /\ reader' = [reader EXCEPT ![r] = [IdleReader EXCEPT !.pc = "lock"]]
    /\ UNCHANGED <<outsideBuilds, latestState, updateLock, build>>

\* m.updateLock.Lock() in GetLatestState.
ReaderLock(r) ==
    /\ reader[r].pc = "lock"
    /\ updateLock = Free
    /\ updateLock' = r
    /\ reader' = [reader EXCEPT ![r].pc = "read"]
    /\ UNCHANGED <<outsideBuilds, latestState, build>>

\* return m.latestState: the deferred m.updateLock.Unlock() runs.
ReaderReturn(r) ==
    /\ reader[r].pc = "read"
    /\ updateLock' = Free
    /\ reader' = [reader EXCEPT
                    ![r].pc = "done", ![r].result = latestState,
                    ![r].anyBuilt = \E b \in Builders : build[b].succeeded,
                    ![r].inFlight = Cardinality({b \in Builders :
                                                   build[b].creating # NilState})]
    /\ UNCHANGED <<outsideBuilds, latestState, build>>

NextBuilds ==
    \/ \E b \in Builders, slot \in BuildSlots : UpdateStateToSlot(b, slot)
    \/ \E b \in Builders : BeginCreate(b)
    \/ \E b \in Builders, ok \in BOOLEAN : ResolveBlock(b, ok)
    \/ \E b \in Builders, ok \in BOOLEAN, partial \in BOOLEAN : Fetch(b, ok, partial)
    \/ \E b \in Builders : CreateReturn(b)
    \/ \E b \in Builders : UpdateLock(b)
    \/ \E b \in Builders : Store(b)
    \/ \E b \in Builders : UpdateUnlock(b)
    \/ \E r \in Readers : GetLatestState(r)
    \/ \E r \in Readers : ReaderLock(r)
    \/ \E r \in Readers : ReaderReturn(r)

\* A new manager with no fallback execution client, on a chain with a block
\* at some of the slots a snapshot is asked for.
InitBuilds ==
    /\ InitWaits /\ ~fallbackEnabled
    /\ BeaconConfig = [GenesisTime |-> 0, SecondsPerSlot |-> 1, SlotsPerEpoch |-> 1]
    /\ beaconBlocks \in BuildBlockSets
    /\ call = NoCall
    /\ InitLatest

\* Concurrent builds and readers of the latest snapshot.
SpecBuilds == InitBuilds /\ [][NextBuilds]_vars

TypeOK ==
    /\ ethClientSyncLock \in BOOLEAN
    /\ beaconClientSyncLock \in BOOLEAN
    /\ \A t \in Tasks : task[t].sinceStart \in 0..(task[t].timeout + 1)

\* ------------------------------------------------------------------ claims

\* What the last StatusCall saw.
StatusCalled == lastCheck.calls = 1
PrimarySynced == mgrStatus.PrimaryEcStatus.IsWorking /\ mgrStatus.PrimaryEcStatus.IsSynced
PrimaryWaitable == mgrStatus.PrimaryEcStatus.IsWorking /\ mgrStatus.PrimaryEcStatus.Error = ""
FallbackSynced ==
    fallbackEnabled /\ mgrStatus.fallbackAnswer.IsWorking /\ mgrStatus.fallbackAnswer.IsSynced
FallbackWaitable ==
    fallbackEnabled /\ mgrStatus.fallbackAnswer.IsWorking /\ mgrStatus.fallbackAnswer.Error = ""
CheckResult == [synced |-> lastCheck.synced, client |-> lastCheck.client, err |-> lastCheck.err]

C2_FallbackSyncedIsReady ==
    StatusCalled /\ ~PrimarySynced /\ FallbackSynced => CheckResult = Ready

\* C2 witness: a call with a primary that is working and syncing and a synced
\* fallback.
C2_Witness ==
    /\ StatusCalled /\ ~PrimarySynced /\ PrimaryWaitable /\ FallbackSynced
    /\ mgrStatus.fallbackProbed
    /\ CheckResult = Ready

\* C3: when neither client is synced, the primary is the client to wait on
\* whenever it is working with an empty error, whatever the fallback answers;
\* the fallback is the client to wait on only when the primary is not working
\* or has an error and the fallback is configured, working, with an empty error.
C3_PrimaryPrecedence ==
    StatusCalled /\ ~PrimarySynced /\ ~FallbackSynced
        => /\ PrimaryWaitable => CheckResult = WaitOn("primary")
           /\ lastCheck.client = "fallback"
                => ~PrimaryWaitable /\ FallbackWaitable /\ CheckResult = WaitOn("fallback")

\* C3 witness: neither is synced, both are working without error, and the
\* primary is the one waited on.
C3_Witness ==
    /\ StatusCalled /\ ~PrimarySynced /\ ~FallbackSynced
    /\ PrimaryWaitable /\ FallbackWaitable
    /\ CheckResult = WaitOn("primary")

\* C4: when neither client is synced and neither is working without error,
\* checkExecutionClientStatus returns (false, nil, error), the error carrying
\* the primary's error string and the error string of the fallback when one is
\* configured.
C4_NoAvailableClient ==
    StatusCalled /\ ~PrimarySynced /\ ~FallbackSynced /\ ~PrimaryWaitable /\ ~FallbackWaitable
        => /\ ~lastCheck.synced /\ lastCheck.client = "nil"
           /\ lastCheck.err # NoErr
           /\ lastCheck.err[2] = mgrStatus.PrimaryEcStatus.Error
           /\ IF fallbackEnabled
                THEN Len(lastCheck.err) = 3 /\ lastCheck.err[3] = mgrStatus.fallbackAnswer.Error
                ELSE Len(lastCheck.err) = 2

\* C4 witness: both clients unusable with different error strings, both carried
\* by the returned error.
C4_Witness ==
    /\ StatusCalled /\ fallbackEnabled
    /\ ~mgrStatus.PrimaryEcStatus.IsWorking /\ mgrStatus.PrimaryEcStatus.Error = "e1"
    /\ ~mgrStatus.fallbackAnswer.IsWorking /\ mgrStatus.fallbackAnswer.Error = "e2"
    /\ lastCheck.err = <<"no execution clients are ready", "e1", "e2">>

\* The not-ready result (false, nil) of a wait.
NotReady(r) == ~r.synced /\ r.err = NoErr

\* C5: a wait of either role called with timeout > 0 whose every answer said
\* "syncing", none of them an error, returns (false, nil).
C5_TimeoutIsNotReady ==
    \A t \in Tasks :
        task[t].pc = "done" /\ task[t].timeout > 0
        /\ task[t].answers = "syncing" /\ task[t].probeErr = NoErr
            => NotReady(task[t]) /\ task[t].path = "timeout"

\* C5 witness: an execution wait and a beacon wait have both timed out on
\* clients that only ever said "syncing".
C5_Witness ==
    \E t, u \in Tasks :
        /\ task[t].pc = "done" /\ task[t].fn = "eth" /\ task[t].timeout > 0
        /\ task[t].answers = "syncing" /\ NotReady(task[t])
        /\ task[u].pc = "done" /\ task[u].fn = "beacon" /\ task[u].timeout > 0
        /\ task[u].answers = "syncing" /\ NotReady(task[u])

\* C6: a wait of either role called with timeout = 0 never returns (false, nil).
C6_NoTimeoutNeverNotReady ==
    \A t \in Tasks :
        task[t].pc = "done" /\ task[t].timeout = 0 => ~NotReady(task[t])

\* C6 witness: a wait with timeout = 0 that polled for longer than the refresh
\* interval and then returned ready.
C6_Witness ==
    \E t \in Tasks :
        /\ task[t].pc = "done" /\ task[t].timeout = 0
        /\ task[t].path = "refreshReady" /\ task[t].synced

\* C7: at most one task at a time is between Lock() and Unlock() of the wait of
\* one role, so the probes of two waiters of a role never interleave.
C7_OneWaiterPerRole ==
    \A t, u \in Tasks :
        t # u /\ task[t].pc \in InWait /\ task[u].pc \in InWait => task[t].fn # task[u].fn

\* C7 witness: one task sleeps inside the execution wait while the other is
\* blocked in Lock() of the same wait.
C7_Witness ==
    \E t, u \in Tasks :
        /\ task[t].fn = "eth" /\ task[t].pc = "sleep"
        /\ task[u].fn = "eth" /\ task[u].pc = "lock" /\ task[u].lockWait > 0

\* C8: the wait lock of a role is held only while some task is inside the wait
\* of that role: every return has released it.
C8_LockFreeAfterReturn ==
    \A f \in Roles :
        Locked(f) => \E t \in Tasks : task[t].fn = f /\ task[t].pc \in InWait

\* C8 witness: a wait has returned the error of a probe and the other task has
\* since acquired the lock of the same role.
C8_Witness ==
    \E t, u \in Tasks :
        /\ task[t].pc = "done" /\ task[t].path = "probeErr"
        /\ task[u].fn = task[t].fn /\ task[u].pc \in InLoop

\* C9 as claimed: a caller with timeout > 0 is not held in the wait for longer
\* than its timeout (one clock step allowed for the last sleep), whatever the
\* other tasks do.
C9_Original ==
    \A t \in Tasks :
        task[t].pc = "lock" /\ task[t].timeout > 0
            => task[t].lockWait <= task[t].timeout + TickStep

\* C9 amended: the timeout bounds the polling loop only, counted from the
\* moment the lock is acquired: at the first timeout test after the timeout
\* has elapsed the wait returns (false, nil); a caller stays in Lock() for as
\* long as the lock of its role is held, whatever its timeout, and is not held
\* up by the lock of the other role.
C9_TimeoutCountsFromLock ==
    [][\A t \in Tasks :
          /\ task[t].pc = "lock" /\ Locked(task[t].fn) => task'[t].pc = "lock"
          /\ task[t].pc = "lock" /\ ~Locked(task[t].fn) => ENABLED Lock(t)
          /\ task[t].pc = "loop" /\ TimedOut(task[t].timeout, task[t].sinceStart)
             /\ task'[t].pc # "loop"
                => task'[t].pc = "done" /\ NotReady(task'[t]) /\ task'[t].path = "timeout"]_vars

\* C9 witness: a caller with timeout > 0 has been blocked in Lock() for longer
\* than its timeout while the other task polls inside the wait of the same
\* role with timeout = 0.
C9_Witness ==
    \E t, u \in Tasks :
        /\ task[t].pc = "lock" /\ task[t].timeout > 0
        /\ task[t].lockWait > task[t].timeout + TickStep
        /\ task[u].fn = task[t].fn /\ task[u].pc \in InLoop /\ task[u].timeout = 0

\* C10: once a probe of a wait (SyncProgress, the latest block timestamp,
\* GetSyncStatus) has answered with an error, the wait has returned
\* (false, that error): it issues no further probe.
C10_ProbeErrorReturned ==
    \A t \in Tasks :
        task[t].probeErr # NoErr
            => task[t].pc = "done" /\ ~task[t].synced /\ task[t].err = task[t].probeErr

\* C10 witness: the timestamp request of the recency check failed and the wait
\* returned its error.
C10_Witness ==
    \E t \in Tasks :
        /\ task[t].pc = "done" /\ task[t].path = "recencyErr"
        /\ task[t].err = ErrLatestBlock /\ ~task[t].synced

\* C11: in an iteration of the execution wait where the client gave no
\* sync-progress object and its latest block timestamp was read, the wait has
\* returned (true, nil) if and only if the block is less than the recency
\* window (5 minutes) old; with an older block the wait has not returned and
\* sleeps before its next poll.
C11_RecencyDecides ==
    \A t \in Tasks :
        task[t].blockAge # -1
            => /\ (task[t].pc = "done" /\ task[t].synced /\ task[t].err = NoErr)
                    <=> (task[t].blockAge < ethClientRecentBlockThreshold)
               /\ (task[t].blockAge >= ethClientRecentBlockThreshold)
                    => (task[t].pc = "sleep" /\ task[t].sleepLeft <= ethClientSyncPollInterval)

\* C11 witness: one wait returned ready on a block one second inside the
\* window, and another sleeps after reading a block exactly as old as the window.
C11_Witness ==
    \E t, u \in Tasks :
        /\ task[t].pc = "done" /\ task[t].path = "success" /\ task[t].fn = "eth"
        /\ task[t].blockAge = ethClientRecentBlockThreshold - 1
        /\ task[u].pc = "sleep" /\ task[u].blockAge = ethClientRecentBlockThreshold

\* C12 as claimed: a fallback that becomes synced is seen at a status refresh
\* before the full timeout has elapsed: no execution wait gives up at its
\* timeout without having refreshed the status in that call.
C12_Original ==
    \A t \in Tasks :
        task[t].pc = "done" /\ task[t].fn = "eth" /\ task[t].path = "timeout"
            => task[t].refreshed

\* C12 amended: the status is re-evaluated at the top of the first iteration
\* that starts more than the refresh interval after the start of the loop or
\* the last refresh, and only there.  A refresh that finds the primary not
\* synced and the fallback synced returns (true, nil) at once; one that finds
\* neither synced restarts the refresh clock and probes the client it was
\* given.  A wait whose timeout is no longer than the refresh interval (the
\* 16 s of RequireEthClientSynced) never reaches a refresh: only a wait with
\* timeout = 0 does.
C12_RefreshReevaluates ==
    [][\A t \in Tasks :
          /\ task[t].pc = "refresh" /\ task'[t].pc # "refresh"
             /\ ~primaryReady' /\ fallbackReady'
                => /\ task'[t].pc = "done" /\ task'[t].path = "refreshReady"
                   /\ task'[t].synced /\ task'[t].err = NoErr
          /\ task[t].pc = "refresh" /\ task'[t].pc = "probe"
                => /\ task'[t].clientToCheck # "nil" /\ task'[t].sinceRefresh = 0
                   /\ ~primaryReady' /\ ~fallbackReady'
          /\ task[t].pc = "loop" /\ task[t].fn = "eth" /\ task'[t].pc = "refresh"
                => /\ task[t].sinceRefresh > ethClientStatusRefreshInterval
                   /\ task[t].timeout = 0
          /\ task[t].pc = "loop" /\ task[t].fn = "eth" /\ task'[t].pc = "probe"
                => task[t].sinceRefresh <= ethClientStatusRefreshInterval
          /\ task[t].timeout > 0 => ~task[t].refreshed /\ task[t].pc # "refresh"]_vars

\* C12 witness: a wait with timeout = 0 returned ready at a refresh that found
\* the primary not synced and the configured fallback synced.
C12_Witness ==
    \E t \in Tasks :
        /\ task[t].pc = "done" /\ task[t].fn = "eth" /\ task[t].timeout = 0
        /\ task[t].path = "refreshReady" /\ task[t].refreshed
        /\ fallbackEnabled /\ ~primaryReady /\ fallbackReady

\* C13: with a working primary that reports sync progress and no fallback, an
\* execution wait with timeout = 0 has not returned while the primary is still
\* syncing, whatever returns it returns (true, nil), and once the primary is
\* synced (it stays synced) a wait that is under way eventually returns
\* (true, nil).
C13_BlocksUntilSynced ==
    /\ [](\A t \in Tasks :
            task[t].pc = "done" /\ task[t].timeout = 0
                => primaryCondition = "synced" /\ task[t].synced /\ task[t].err = NoErr)
    /\ \A t \in Tasks :
          (task[t].pc \in InWait /\ task[t].timeout = 0 /\ primaryCondition = "synced")
              ~> (task[t].pc = "done" /\ task[t].timeout = 0
                  /\ task[t].synced /\ task[t].err = NoErr)

\* C13 witness: a wait with timeout = 0 that polled the syncing primary, found
\* a stale latest block after the primary had synced, and returned ready at
\* the next refresh.
C13_Witness ==
    \E t \in Tasks :
        /\ ~fallbackEnabled /\ primaryCondition = "synced" /\ primaryReady
        /\ task[t].pc = "done" /\ task[t].timeout = 0 /\ task[t].fn = "eth"
        /\ task[t].path = "refreshReady" /\ task[t].synced

\* Conditions of a beacon client, as the status evaluation reads them.
IsReady(s) == s.IsWorking /\ s.IsSynced
IsWaitable(s) == s.IsWorking /\ s.Error = ""

WalkOps == {"GetLatestProposedBeaconBlock", "GetLatestFinalizedBeaconBlock",
            "UpdateStateToFinalized"}
HeadOps == {"GetHeadSlot", "UpdateStateToHead"}

\* The greatest slot at or below s that has a block.
HasBlockAtOrBelow(s) == \E b \in beaconBlocks : b <= s
LatestProposedAtOrBelow(s) ==
    CHOOSE r \in beaconBlocks : r <= s /\ \A b \in beaconBlocks : b <= s => b <= r

\* The slots s, s-1, ..., r.
Descending(s, r) == [i \in 1..(s - r + 1) |-> s + 1 - i]

\* The slot a finished walk resolved to: the block's, or the slot handed to updateState.
ResolvedSlot == IF call.op = "UpdateStateToFinalized" THEN call.built ELSE call.block

\* C15: for every target slot s and every set of present slots with a block
\* at or below s, the backward walk asks for s, s-1, ... once each in
\* descending order, never leaves the slots between s and the greatest
\* present slot r <= s, and returns the block of r.
C15_WalkFindsLatestProposed ==
    call.op \in WalkOps /\ call.start # -1 /\ HasBlockAtOrBelow(call.start)
        => LET r == LatestProposedAtOrBelow(call.start) IN
           /\ ~call.wrapped
           /\ call.targetSlot \in r..call.start
           /\ call.pc = "probe" => call.probes = Descending(call.start, call.targetSlot + 1)
           /\ call.pc = "done" /\ call.err = NoErr
                => ResolvedSlot = r /\ call.probes = Descending(call.start, r)
           /\ call.pc = "done" /\ call.err # NoErr => call.block = -1 /\ call.built = -1

\* C15 witness: the target slot and the two slots below it are missing, the
\* third below has a block and is returned after four probes; a slot above the
\* target has a block too.
C15_Witness ==
    /\ call.op = "GetLatestProposedBeaconBlock" /\ call.pc = "done" /\ call.err = NoErr
    /\ call.block = call.start - 3 /\ Len(call.probes) = 4
    /\ \E b \in beaconBlocks : b > call.start

\* C16 as claimed: the slot counter of the backward walk is never decremented
\* below zero: it never wraps around to a slot above the slot the walk started at.
C16_Original ==
    call.op \in WalkOps /\ call.start # -1
        => ~call.wrapped /\ call.targetSlot <= call.start

FloorSlot(t) == (t - BeaconConfig.GenesisTime) \div BeaconConfig.SecondsPerSlot
HeadComputed == call.op \in HeadOps /\ call.pc = "done" /\ call.time # -1

\* C18 as claimed: for every head block timestamp t >= genesisTime the head
\* slot is floor((t - genesisTime) / secondsPerSlot).
C18_Original ==
    HeadComputed /\ call.time >= BeaconConfig.GenesisTime
        => call.targetSlot = FloorSlot(call.time)

\* C18 amended: for every head block timestamp t >= genesisTime that is no
\* further from the genesis than a time.Duration can hold, the head slot is
\* floor((t - genesisTime) / secondsPerSlot); it is what GetHeadSlot returns
\* and what UpdateStateToHead hands to updateState.
C18_HeadSlotWithinDuration ==
    HeadComputed /\ call.time >= BeaconConfig.GenesisTime
    /\ call.time - BeaconConfig.GenesisTime <= MaxDurationSeconds
        => /\ call.targetSlot = FloorSlot(call.time)
           /\ call.err = NoErr
           /\ call.op = "GetHeadSlot" => call.slot = call.targetSlot
           /\ call.op = "UpdateStateToHead" => call.built = call.targetSlot

\* C18 witness: a head block 3 seconds after a genesis that is not at 0, with
\* 2-second slots: slot 1.
C18_Witness ==
    /\ HeadComputed /\ call.op = "GetHeadSlot"
    /\ BeaconConfig.GenesisTime > 0 /\ BeaconConfig.SecondsPerSlot = 2
    /\ call.time - BeaconConfig.GenesisTime = 3 /\ call.slot = 1

\* C19 as claimed: with a head block timestamp before the genesis time the
\* head-slot computation fails: it returns an error and no slot number, and no
\* snapshot is built.
C19_Original ==
    HeadComputed /\ call.time < BeaconConfig.GenesisTime
        => call.err # NoErr /\ call.slot = -1 /\ call.built = -1

\* The last slot of epoch e.
LastSlotOfEpoch(e) == e * BeaconConfig.SlotsPerEpoch + (BeaconConfig.SlotsPerEpoch - 1)

\* C20 as claimed: for every finalized epoch e the target slot is
\* e * slotsPerEpoch + (slotsPerEpoch - 1).
C20_Original ==
    call.epoch # -1 => call.start = LastSlotOfEpoch(call.epoch)

\* C20 amended: for every finalized epoch e whose last slot fits the unsigned
\* 64-bit slot number, the target slot the walk starts at is
\* e * slotsPerEpoch + (slotsPerEpoch - 1); beyond that the product wraps.
C20_FinalizedTargetIsLastSlot ==
    call.epoch # -1
        => /\ LastSlotOfEpoch(call.epoch) <= UintMax
                => call.start = LastSlotOfEpoch(call.epoch)
           /\ call.op \in {"GetLatestFinalizedBeaconBlock", "UpdateStateToFinalized"}
           /\ call.probes # <<>> => call.probes[1] = call.start

\* C20 witness: with 3 slots per epoch and finalized epoch 1, the walk of
\* UpdateStateToFinalized starts at slot 5.
C20_Witness ==
    /\ call.op = "UpdateStateToFinalized" /\ call.pc = "probe" /\ call.epoch = 1
    /\ BeaconConfig.SlotsPerEpoch = 3
    /\ call.targetSlot = 2 * BeaconConfig.SlotsPerEpoch - 1 /\ call.probes = <<>>

C22_Original ==
    (/\ call.op = "UpdateStateToFinalized" /\ call.built # -1
     /\ LastSlotOfEpoch(call.epoch) <= UintMax)
        => /\ call.built \in beaconBlocks
           /\ call.built <= LastSlotOfEpoch(call.epoch)
           /\ \A q \in beaconBlocks : q <= LastSlotOfEpoch(call.epoch) => q <= call.built

\* The updateState calls that have stored their snapshot.
StoreAt == CHOOSE i \in DOMAIN updateStateSteps : updateStateSteps[i] = "store"
Published(b) == build[b].at > StoreAt /\ build[b].state # NilState

\* C23: a GetLatestState that reads m.latestState before any build has
\* returned a snapshot returns nil, whatever builds are in progress.
C23_AbsentBeforeAnyBuild ==
    \A r \in Readers :
        reader[r].pc = "done" /\ ~reader[r].anyBuilt => reader[r].result = NilState

\* C23 witness: GetLatestState returned nil while every builder was creating
\* its first snapshot.
C23_Witness ==
    \E r \in Readers :
        /\ reader[r].pc = "done" /\ ~reader[r].anyBuilt
        /\ reader[r].inFlight = Cardinality(Builders)
        /\ reader[r].result = NilState

\* C24: the latest snapshot is the one of the updateState that stored last: a
\* build that returned snapshot S, no other build having stored since, leaves
\* m.latestState = S, and GetLatestState returns m.latestState.
C24_LatestIsLastPublished ==
    /\ [](\A b \in Builders :
            Published(b) /\ ~build[b].disturbed
                => /\ latestState = build[b].state
                   /\ build[b].at = Returned => build[b].ret = latestState)
    /\ [][\A r \in Readers :
            reader[r].pc = "read" /\ reader'[r].pc = "done"
                => reader'[r].result = latestState]_vars

\* C24 witness: two builds have stored one after the other, the second has
\* returned S and a GetLatestState has returned S.
C24_Witness ==
    \E b \in Builders, c \in Builders, r \in Readers :
        /\ b # c /\ Published(c) /\ build[c].disturbed
        /\ build[b].at = Returned /\ build[b].ret # NilState /\ ~build[b].disturbed
        /\ reader[r].pc = "done" /\ reader[r].result = build[b].ret

\* A snapshot whose construction is complete.
Complete(s) == s.complete /\ s.block # -1 /\ Len(s.records) = MaxEntities

\* C25: m.latestState, and what GetLatestState returns, is nil or a snapshot
\* whose construction is complete; the snapshot a build is still filling is
\* never the latest one.
C25_LatestIsNilOrComplete ==
    /\ latestState = NilState \/ Complete(latestState)
    /\ \A r \in Readers : reader[r].result = NilState \/ Complete(reader[r].result)
    /\ \A b \in Builders :
          build[b].creating # NilState => latestState.id # build[b].creating.id

\* C25 witness: GetLatestState returned a complete snapshot while another
\* build had fetched part of its own.
C25_Witness ==
    \E b \in Builders, r \in Readers :
        /\ build[b].creating # NilState /\ Len(build[b].creating.records) = 1
        /\ reader[r].pc = "done" /\ reader[r].inFlight >= 1
        /\ Complete(reader[r].result)

\* C26: an updateState whose CreateNetworkState returned an error returns no
\* snapshot, and m.latestState is what it was when the call started unless
\* another build has stored since.
C26_FailedBuildPublishesNothing ==
    \A b \in Builders :
        build[b].at = Returned /\ build[b].err # NoErr
            => /\ build[b].ret = NilState
               /\ ~build[b].disturbed => latestState = build[b].before

\* C26 witness: a build that started when a snapshot was the latest has
\* failed, and that snapshot still is the latest.
C26_Witness ==
    \E b \in Builders :
        /\ build[b].at = Returned /\ build[b].err = ErrCreate
        /\ build[b].before # NilState /\ latestState = build[b].before

\* The builds that are inside CreateNetworkState.
Fetching(b) == build[b].creating # NilState

\* C27: m.updateLock is held by an updateState only from its Lock to its
\* return, around the store, and by a GetLatestState only around its read;
\* never by a build that is creating its snapshot, so a build that is still
\* fetching never keeps GetLatestState from the lock.
C27_LockOnlyAroundTheSwap ==
    /\ \A b \in Builders :
          /\ updateLock = b => NextStep(b) \in {"store", "Unlock"}
          /\ Fetching(b) \/ NextStep(b) = "CreateNetworkState" => updateLock # b
    /\ \A r \in Readers : updateLock = r <=> reader[r].pc = "read"

\* C27 witness: GetLatestState holds the lock while two builds are fetching.
C27_Witness ==
    \E r \in Readers :
        /\ updateLock = r
        /\ \A b \in Builders : Fetching(b) /\ Len(build[b].creating.records) >= 1

\* C28: whatever the order in which the builds started and whatever their
\* slots, the updateState that stores makes its snapshot the latest one.
C28_LastPublisherWins ==
    [][\A b \in Builders :
          NextStep(b) = "store" /\ build'[b].at = build[b].at + 1
              => latestState' = build[b].state]_vars

\* C28 witness: a build that started while another was in progress stored
\* first; the earlier one stored after it, and the latest snapshot is now the
\* earlier build's, of a lower slot.
C28_Witness ==
    \E b \in Builders :
        /\ Published(b) /\ build[b].disturbed
        /\ latestState.id = build[b].during
        /\ latestState.slot < build[b].state.slot

\* The snapshots that exist.
Snapshots ==
    {latestState} \cup {build[b].creating : b \in Builders}
    \cup {build[b].state : b \in Builders} \cup {build[b].ret : b \in Builders}
    \cup {reader[r].result : r \in Readers}

C30_ProbeErrorStopsWalk ==
    call.failed
        => /\ call.pc = "done" /\ call.err = ErrBeaconBlock
           /\ call.block = -1 /\ call.built = -1
           /\ ~call.wrapped => call.targetSlot = call.probes[Len(call.probes)]

\* C30 witness: the target slot was missing and the probe of the slot below
\* it failed.
C30_Witness ==
    /\ call.op \in WalkOps /\ call.failed /\ call.pc = "done"
    /\ Len(call.probes) = 2 /\ call.targetSlot = call.start - 1

\* C31: in an iteration of the execution wait where SyncProgress returned a
\* progress object, whatever its block numbers (current below the highest or
\* equal to it), the wait has not returned and has not read the latest block
\* for the recency check: it sleeps the poll interval.
C31_ProgressIsAuthoritative ==
    \A t \in Tasks :
        task[t].progress \in {"behind", "caughtUp"}
            => /\ task[t].pc = "sleep" /\ task[t].sleepLeft <= ethClientSyncPollInterval
               /\ task[t].blockAge = -1

\* C31 witness: a wait sleeps after a progress object whose current block is
\* the highest block, and it had looped before.
C31_Witness ==
    \E t \in Tasks :
        /\ task[t].fn = "eth" /\ task[t].pc = "sleep"
        /\ task[t].progress = "caughtUp" /\ task[t].refreshed

\* The poll interval of the wait of role f.
PollInterval(f) == IF f = "eth" THEN ethClientSyncPollInterval ELSE beaconClientSyncPollInterval

\* Task t issues the sync probe of its iteration (SyncProgress, GetSyncStatus)
\* in this step.
Probes(t) == task[t].pc = "probe" /\ task'[t].pc # "probe"

\* C32: within one wait a sync probe (SyncProgress, GetSyncStatus) other than
\* the first follows the one before it after exactly one sleep, which lasted
\* the poll interval of the role; a wait goes to sleep only from the iteration
\* of a probe, and a wait that returns from the iteration of a probe has not
\* slept since that probe.
C32_OneSleepBetweenProbes ==
    [][\A t \in Tasks :
          /\ Probes(t) => /\ task[t].sinceProbe \in {"none", "slept"}
                          /\ task'[t].sinceProbe = "probed"
          /\ task[t].pc # "sleep" /\ task'[t].pc = "sleep"
                => /\ task[t].pc \in {"probe", "recency"}
                   /\ task'[t].sinceProbe = "probed"
                   /\ task'[t].sleepLeft = PollInterval(task[t].fn)
          /\ task[t].pc = "sleep" /\ task'[t].pc # "sleep"
                => /\ task[t].sleepLeft = 0 /\ task'[t].pc = "loop"
                   /\ task'[t].sinceProbe = "slept"
          /\ task[t].pc \in {"probe", "recency"} /\ task'[t].pc = "done"
                => task'[t].sinceProbe = "probed"]_vars

\* C32 witness: a beacon wait is about to probe again after one sleep, and an
\* execution wait returned ready from the recency check of its second probe
\* or a later one.
C32_Witness ==
    \E t, u \in Tasks :
        /\ task[t].fn = "beacon" /\ task[t].pc = "probe" /\ task[t].sinceProbe = "slept"
        /\ task[u].fn = "eth" /\ task[u].pc = "done" /\ task[u].path = "success"
        /\ task[u].answers = "other" /\ task[u].refreshed

\* The three shapes of a checkExecutionClientStatus result.
ShapeReady(r) == r.synced /\ r.client = "nil" /\ r.err = NoErr
ShapeWait(r) == ~r.synced /\ r.client \in {"primary", "fallback"} /\ r.err = NoErr
ShapeError(r) == ~r.synced /\ r.client = "nil" /\ r.err # NoErr

\* C33: every checkExecutionClientStatus result an execution wait received is
\* (true, no client, no error), (false, a client, no error) or (false, no
\* client, an error); a wait goes on into its loop only with the second, so
\* at its SyncProgress probe clientToCheck is a client: the primary, or the
\* fallback of a manager that has one.
C33_ResultShapes ==
    \A t \in Tasks :
        /\ task[t].checked # NoCheck
              => /\ ShapeReady(task[t].checked) \/ ShapeWait(task[t].checked)
                    \/ ShapeError(task[t].checked)
                 /\ task[t].checked.client = "fallback" => fallbackEnabled
        /\ task[t].fn = "eth" /\ task[t].pc \in InLoop
              => ShapeWait(task[t].checked) /\ task[t].clientToCheck = task[t].checked.client

\* C33 witness: one wait returned the error of a check that found no usable
\* client, and another, told at a refresh to wait on the fallback, is at its
\* SyncProgress probe.
C33_Witness ==
    \E t, u \in Tasks :
        /\ task[t].pc = "done" /\ task[t].path = "checkErr" /\ ShapeError(task[t].checked)
        /\ task[u].fn = "eth" /\ task[u].pc = "probe" /\ task[u].refreshed
        /\ task[u].clientToCheck = "fallback"

\* C34: when the statements of a wait take no time, a wait called with
\* timeout >= 1 that has returned (false, nil) has issued its sync probe
\* (SyncProgress, GetSyncStatus) at least once in that call: the time it spent
\* blocked in Lock() is not part of the elapsed time, which is zero at the
\* first timeout test.
C34_ProbedBeforeTimeout ==
    \A t \in Tasks :
        /\ task[t].pc = "done" /\ task[t].timeout >= 1 /\ NotReady(task[t])
              => task[t].sinceProbe # "none" /\ task[t].path = "timeout"
        /\ task[t].pc = "loop" /\ task[t].sinceProbe = "none" => task[t].sinceStart = 0

\* C34 witness: a beacon wait with a timeout was blocked in Lock() for longer
\* than its timeout, then polled and returned (false, nil) at its timeout.
C34_Witness ==
    \E t, u \in Tasks :
        /\ task[t].fn = "beacon" /\ task[t].pc = "done" /\ task[t].timeout >= 1
        /\ NotReady(task[t]) /\ task[t].sinceProbe = "slept"
        /\ task[u].fn = "beacon" /\ task[u].pc = "lock"
        /\ task[u].timeout >= 1 /\ task[u].lockWait > task[u].timeout

\* Some task is past Lock() of the wait of role f and has not returned.
Inside(f) == \E t \in Tasks : task[t].fn = f /\ task[t].pc \in InWait

\* The other role.
Other(f) == IF f = "eth" THEN "beacon" ELSE "eth"

\* C35: the lock of a role is held exactly while a task is inside the wait of
\* that role, whatever goes on in the wait of the other role: a task at Lock()
\* of a role with no task inside its wait acquires the lock even while another
\* task polls, sleeps or is blocked in the wait of the other role, and a task
\* that returns releases the lock of its own role only.
C35_LocksIndependent ==
    /\ \A f \in Roles : Locked(f) <=> Inside(f)
    /\ \A t \in Tasks :
          task[t].pc = "lock" /\ ~Inside(task[t].fn) => ENABLED Lock(t)

\* C35 witness: one task sleeps inside the execution wait and the other,
\* which found the beacon lock free, is polling inside the consensus wait.
C35_Witness ==
    \E t, u \in Tasks :
        /\ task[t].fn = "eth" /\ task[t].pc = "sleep" /\ task[t].timeout = 0
        /\ task[u].fn = "beacon" /\ task[u].pc = "sleep" /\ task[u].sinceProbe = "probed"
        /\ ethClientSyncLock /\ beaconClientSyncLock

\* The checks of RequireNodeRegistered in the order claimed.
C36_Order == <<"password", "wallet", "ethSynced", "storage", "registered">>

\* The answer a of a check says that what the check asks for holds.
Holds(a) == a.ok /\ a.err = NoErr

\* C36: the checks a RequireNodeRegistered call has evaluated are the first
\* ones of password set, wallet initialized, execution client synced, storage
\* contract present, node registered, in that order, and all but the last one
\* evaluated held.  A call that returned an error has it from the last check it
\* evaluated, which did not hold: the error of the lookup, or the check's own
\* error; a call returns nil only after all five held.  A wait that returned
\* (false, nil) makes the call return the error of RequireEthClientSynced.
C36_FirstFailureWins ==
    LET n == Len(require.evaluated) IN
    /\ n <= Len(C36_Order) /\ Len(require.answers) = n
    /\ \A i \in 1..n : require.evaluated[i] = C36_Order[i]
    /\ \A i \in 1..(n - 1) : Holds(require.answers[i])
    /\ require.pc = "check" => require.at = n + 1 /\ (n > 0 => Holds(require.answers[n]))
    /\ require.pc = "done"
          => /\ n >= 1
             /\ require.err = NoErr <=> (n = Len(C36_Order) /\ Holds(require.answers[n]))
             /\ ~Holds(require.answers[n])
                   => require.err = IF require.answers[n].err # NoErr
                                      THEN require.answers[n].err
                                      ELSE Unmet(C36_Order[n])
             /\ (n = 3 /\ ~require.answers[n].ok /\ require.answers[n].err = NoErr)
                   => require.err = ErrEthSyncing /\ NotReady(task[Requirer])
    /\ (require.pc = "check" /\ n >= 3) => task[Requirer].pc = "done" /\ task[Requirer].synced

\* C36 witness: the password and the wallet held, the execution wait gave up
\* at its timeout after polling, and the call returned the error of
\* RequireEthClientSynced without looking for the storage contract.
C36_Witness ==
    /\ require.pc = "done" /\ require.evaluated = <<"password", "wallet", "ethSynced">>
    /\ task[Requirer].path = "timeout" /\ task[Requirer].sinceProbe = "slept"
    /\ require.err = ErrEthSyncing

====
